---- MODULE Spec2Model ----
(***************************************************************************)
(* Model of the portfolio checker: StructureValidator.validate walks the   *)
(* entry list of a ZIP archive and fills a CheckContext, the bot then      *)
(* checks the PDFs and decision_engine.decide reduces the context to a     *)
(* DecisionResult.                                                         *)
(*                                                                         *)
(* Strings are TLA+ strings over ASCII; a Python Optional[T] is the empty  *)
(* tuple (None) or a one-element tuple <<x>>; a Python dict is a function  *)
(* whose DOMAIN is the set of keys present; a float confidence or          *)
(* threshold is an integer number of hundredths (0.6 is 60).               *)
(***************************************************************************)
EXTENDS Integers, Sequences, FiniteSets, TLC

(***************************************************************************)
(* Bounds of the model.                                                    *)
(***************************************************************************)
\* largest number of entries of an archive
MaxEntries == 2

\* largest number of validate calls made on one validator
MaxCalls == 2

\* largest number of items added to one ManualQueue
MaxItems == 3

\* largest number of messages the bot handles
MaxMessages == 4

(***************************************************************************)
(* Python values.                                                          *)
(***************************************************************************)
None == << >>

Some(x) == << x >>

EmptyDict == [k \in {} |-> TRUE]

\* truth value of an Optional[str]: None and "" are false
Truthy(o) == o # None /\ o[1] # ""

\* d.get(k): None when the key is missing
DictGet(d, k) == IF k \in DOMAIN d THEN Some(d[k]) ELSE None

\* d.get(k, default)
DictGetDefault(d, k, default) == IF k \in DOMAIN d THEN d[k] ELSE default

Char(s, i) == SubSeq(s, i, i)

UpperAlphabet == "ABCDEFGHIJKLMNOPQRSTUVWXYZ"

LowerAlphabet == "abcdefghijklmnopqrstuvwxyz"

\* the character class [A-Z...] of WORKCODE_RE and STUDENT_SHORT_RE
\* (the Cyrillic part of the class has no member in the ASCII alphabet)
UpperChars == {Char(UpperAlphabet, i) : i \in 1..Len(UpperAlphabet)}

\* the character class \d
DigitChars == {"0", "1", "2", "3", "4", "5", "6", "7", "8", "9"}

\* the character class \s
SpaceChars == {" ", "\t", "\n", "\r", "\f"}

\* the lower-case letter of every upper-case letter
LowerOf ==
    [c \in UpperChars |->
        Char(LowerAlphabet, CHOOSE i \in 1..Len(UpperAlphabet) : Char(UpperAlphabet, i) = c)]

LowerChar(c) == IF c \in UpperChars THEN LowerOf[c] ELSE c

RECURSIVE LowerFrom(_, _)
LowerFrom(s, i) ==
    IF i > Len(s) THEN "" ELSE LowerChar(Char(s, i)) \o LowerFrom(s, i + 1)

\* str.lower()
Lower(s) == LowerFrom(s, 1)

\* sub in s
Contains(s, sub) ==
    \E i \in 1..(Len(s) - Len(sub) + 1) : SubSeq(s, i, i + Len(sub) - 1) = sub

\* s.endswith(suf)
EndsWith(s, suf) ==
    Len(s) >= Len(suf) /\ SubSeq(s, Len(s) - Len(suf) + 1, Len(s)) = suf

\* the positions of the separator in the string
SepPositions(s, sep) == {i \in 1..Len(s) : Char(s, i) = sep}

RECURSIVE SplitFrom(_, _, _)
\* the pieces of the string from position start on, cut at the positions given
SplitFrom(s, start, cuts) ==
    IF cuts = {} THEN << SubSeq(s, start, Len(s)) >>
    ELSE LET Cut(c) == << SubSeq(s, start, c - 1) >> \o SplitFrom(s, c + 1, cuts \ {c})
         IN  Cut(CHOOSE c \in cuts : \A d \in cuts : c <= d)

\* s.split(sep) for a one-character separator: empty pieces are kept
Split(s, sep) == SplitFrom(s, 1, SepPositions(s, sep))

\* [p for p in name.split("/") if p]
PathParts(name) == SelectSeq(Split(name, "/"), LAMBDA p : p # "")

AllChars(s, class) == \A i \in 1..Len(s) : Char(s, i) \in class

NoChars(s, class) == \A i \in 1..Len(s) : Char(s, i) \notin class

\* "$" of a Python regex also matches just before one trailing newline
DollarForms(s) ==
    {s} \cup (IF EndsWith(s, "\n") THEN {SubSeq(s, 1, Len(s) - 1)} ELSE {})

(***************************************************************************)
(* utils.py                                                                *)
(***************************************************************************)
StudentShortBody(v) ==
    /\ Len(v) >= 4
    /\ NoChars(SubSeq(v, 1, Len(v) - 3), SpaceChars)
    /\ Char(v, Len(v) - 2) = " "
    /\ AllChars(SubSeq(v, Len(v) - 1, Len(v)), UpperChars)

\* STUDENT_SHORT_RE.match(value)
is_valid_student_short(value) == \E v \in DollarForms(value) : StudentShortBody(v)

RECURSIVE LastDotFrom(_, _)
LastDotFrom(filename, i) ==
    IF i = 0 \/ Char(filename, i) = "." THEN i ELSE LastDotFrom(filename, i - 1)

\* the position of the last "." of the name, 0 when it has none
LastDot(filename) == LastDotFrom(filename, Len(filename))

\* (base, ext) of filename.rsplit(".", 1)
split_filename(filename) ==
    LET dot == LastDot(filename)
    IN  IF ~Contains(filename, ".") THEN << filename, "" >>
        ELSE << SubSeq(filename, 1, dot - 1), SubSeq(filename, dot + 1, Len(filename)) >>

(***************************************************************************)
(* structure_validator.py: the two patterns                                *)
(***************************************************************************)
\* variant: at most four fields
PDF_NAME_RE_AtMost(base) ==
    LET Accepts(seps) ==
          /\ Cardinality(seps) <= 3
          /\ 1 \notin seps /\ Len(base) \notin seps
          /\ \A i \in seps : i + 1 \notin seps
    IN  Accepts(SepPositions(base, "_"))

\* variant: three "_", the fields may be empty
PDF_NAME_RE_EmptyFields(base) == Cardinality(SepPositions(base, "_")) = 3

\* PDF_NAME_RE.match(base): "[^_]+" four times with "_" in between, so the
\* name holds exactly three "_", none at either end and no two in a row
\* ("[^_]" takes a newline too, so "$" adds nothing)
PDF_NAME_RE(base) ==
    LET Accepts(seps) ==
          /\ Cardinality(seps) = 3
          /\ 1 \notin seps /\ Len(base) \notin seps
          /\ \A i \in seps : i + 1 \notin seps
    IN  Accepts(SepPositions(base, "_"))

\* the length of the letter group of WORKCODE_RE: the match is greedy
WorkCodeLen(v) ==
    IF Len(v) >= 3 /\ AllChars(SubSeq(v, 1, 3), UpperChars) THEN 3 ELSE 2

WorkCodeBody(v) ==
    /\ Len(v) >= 2
    /\ AllChars(SubSeq(v, 1, 2), UpperChars)
    /\ AllChars(SubSeq(v, WorkCodeLen(v) + 1, Len(v)), DigitChars)

\* WORKCODE_RE.match(work_part): None, or the groups (code, number) where
\* number is None when no digit was captured
WORKCODE_RE(work_part) ==
    IF \E v \in DollarForms(work_part) : WorkCodeBody(v)
    THEN LET v == CHOOSE w \in DollarForms(work_part) : WorkCodeBody(w)
             k == WorkCodeLen(v)
         IN  Some(<< SubSeq(v, 1, k),
                     IF Len(v) > k THEN Some(SubSeq(v, k + 1, Len(v))) ELSE None >>)
    ELSE None

(***************************************************************************)
(* errors.py                                                               *)
(***************************************************************************)
\* ErrorDetail(code, message, path); the messages are rendered in English
ErrorDetail(code, message, path) == [code |-> code, message |-> message, path |-> path]

(***************************************************************************)
(* The configuration (config.json) the bot is started with.                *)
(***************************************************************************)
\* the reference lists: two disciplines; concrete work types, aliases (one
\* declared before its target, one whose target is missing, one pointing to
\* another alias) and a work type with no code and no number policy
CatalogConfig ==
    [disciplines |-> <<
        [discipline_full |-> "Radio", discipline_short |-> "RS", sheet_column_header |-> "RS"],
        [discipline_full |-> "Optics", discipline_short |-> "OP"] >>,
     worktypes |-> <<
        [folder |-> "Labs", code |-> "LR", number_required |-> TRUE],
        [folder |-> "Practice", alias_of |-> "Seminars"],
        [folder |-> "Seminars", code |-> "PZ", number_required |-> TRUE],
        [folder |-> "Course", code |-> "KR", number_required |-> FALSE, number_forbidden |-> TRUE],
        [folder |-> "Old", alias_of |-> "Gone"],
        [folder |-> "Chain", alias_of |-> "Practice"],
        [folder |-> "Misc"] >>]

\* confidences and thresholds, in hundredths
Hundredths == {0, 50, 59, 60, 61, 70, 100}

ThresholdValues == {50, 60, 70}

\* every "title_check" section: each of its three keys present or missing
TitleCheckSections ==
    { e @@ s @@ z :
        e \in {EmptyDict, [enabled |-> TRUE], [enabled |-> FALSE]},
        s \in {EmptyDict} \cup {[signature_threshold |-> t] : t \in ThresholdValues},
        z \in {EmptyDict} \cup {[zacheno_threshold |-> t] : t \in ThresholdValues} }

\* every configuration: the catalog, with or without a "title_check" section
Configs ==
    {CatalogConfig} \cup {[title_check |-> t] @@ CatalogConfig : t \in TitleCheckSections}

\* the configurations the whole pipeline is run with
PipelineConfigs ==
    { CatalogConfig,
      [title_check |-> [enabled |-> TRUE]] @@ CatalogConfig,
      [title_check |-> [enabled |-> TRUE, signature_threshold |-> 70, zacheno_threshold |-> 50]]
          @@ CatalogConfig }

(***************************************************************************)
(* The archives: entry names as ZipFile.infolist() yields them.            *)
(***************************************************************************)
EntryNames ==
    { "G1/Ivanov IO/Radio/Labs/G1_Ivanov IO_RS_LR1.pdf",
      "G1//Ivanov IO/Radio/Course/G1_Ivanov IO_RS_KR.PDF",
      "G2/Ivanov IO/Radio/Labs/G2_Ivanov IO_RS_LR2.pdf",
      "G1/Petrov AB/Radio/Labs/G1_Petrov AB_RS_LR1.pdf",
      "G1/Ivanov IO/Optics/Labs/G1_Ivanov IO_OP_LR1.pdf",
      "G1/Ivanov IO/Magic/Labs/G1_Ivanov IO_MG_LR1.pdf",
      "G1/ivanov/Radio/Unknown/G1_ivanov_RS_LR1.pdf",
      "G1/Ivanov IO/Radio/Practice/G2_Petrov AB_OP_PR1.pdf",
      "G1/Ivanov IO/Radio/Course/G1_Ivanov IO_RS_kr1.pdf",
      "G1/Ivanov IO/Radio/Labs/G1_Ivanov IO_RS_KR.pdf",
      "G1/Ivanov IO/Radio/Course/G1_Ivanov IO_RS_KR7.pdf",
      "G1/Ivanov IO/Radio/Labs/report.pdf",
      "G1/Ivanov IO/Radio/Labs/notes.txt",
      "G1/Ivanov IO/Radio/Labs/README",
      "G1/Ivanov IO/Radio/Old/G1_Ivanov IO_RS_ZZ.pdf",
      "G2/Petrov AB/Optics/G2_Petrov AB_OP_LR1.pdf",
      "G2/Petrov AB/Optics/Labs/extra/G2_Petrov AB_OP_LR1.pdf",
      "",
      "/",
      "G1/Ivanov IO/Radio/Labs/",
      "G1/Ivanov IO/Radio/Labs/extra/",
      "__MACOSX/._junk",
      "G2/Petrov AB/Optics/Labs/__MACOSX_G2_OP_LR1.pdf",
      "G2/Petrov AB/Optics/Labs/Thumbs.db" }

\* the entry names of the archives given to calls on one shared validator
CallEntryNames ==
    { "G1/Ivanov IO/Radio/Labs/G1_Ivanov IO_RS_LR1.pdf",
      "G2/Ivanov IO/Radio/Labs/G2_Ivanov IO_RS_LR2.pdf" }

\* entry names that exercise the rules of the PDF file name and the two
\* whitelists: every one is a file of five segments
PdfEntryNames ==
    { "G1/Ivanov IO/Radio/Labs/G1_Ivanov IO_RS_LR1.pdf",
      "G2/Ivanov IO/Radio/Labs/G2_Ivanov IO_RS_LR2.pdf",
      "G1/Ivanov IO/Radio/Practice/G2_Petrov AB_OP_PR1.pdf",
      "G1/Ivanov IO/Radio/Labs/G1_Ivanov IO_RS_PZ1.pdf",
      "G1/Ivanov IO/Radio/Labs/G1_Ivanov IO_RS_KR.pdf",
      "G1/Ivanov IO/Radio/Course/G1_Ivanov IO_RS_KR7.pdf",
      "G1/Ivanov IO/Radio/Course/G1_Ivanov IO_RS_kr1.pdf",
      "G1/Ivanov IO/Radio/Labs/G1_Ivanov IO_RS_LR1\n.pdf",
      "G1/Ivanov IO/Radio/Misc/G1_Ivanov IO_RS_XY3.pdf",
      "G1/Ivanov IO/Radio/Misc/G1_Ivanov IO_RS_XY.pdf",
      "G1/Ivanov IO/Radio/Chain/G1_Ivanov IO_RS_PZ.pdf",
      "G1/Ivanov IO/Magic/Labs/G1_Ivanov IO_MG_LR1.pdf",
      "G1/Ivanov IO/Radio/Unknown/G2_Ivanov IO_RS_zz.pdf",
      "G2/Ivanov IO/Magic/Unknown/notes.txt",
      "G1/Ivanov IO/Magic/Course/report.pdf",
      "G1/Ivanov IO/Radio/Labs/report.pdf",
      "G1/Ivanov IO/Radio/Labs/G1_Ivanov IO_RS_.pdf",
      "G1/Ivanov IO/Radio/Labs/G1_Ivanov IO_RS_LR1_v2.pdf" }

\* entry names that exercise the format of the student folder: every one is
\* a file of five segments, named after its own folders
StudentEntryNames ==
    { "G1/Ivanov IO/Radio/Labs/G1_Ivanov IO_RS_LR1.pdf",
      "G1/Petrov AB/Radio/Labs/G1_Petrov AB_RS_LR1.pdf",
      "G1/ivanov/Radio/Labs/G1_ivanov_RS_LR1.pdf",
      "G1/ivanov/Radio/Labs/notes.txt",
      "G1/Ivanov  IO/Radio/Labs/G1_Ivanov  IO_RS_LR1.pdf",
      "G1/Ivanov Io/Radio/Labs/G1_Ivanov Io_RS_LR1.pdf",
      "G1/Ivanov IOP/Radio/Labs/G1_Ivanov IOP_RS_LR1.pdf",
      "G1/Iv an IO/Radio/Labs/G1_Iv an IO_RS_LR1.pdf",
      "G1/ IO/Radio/Labs/G1_ IO_RS_LR1.pdf",
      "G1/Ivanov IO\n/Radio/Labs/G1_Ivanov IO\n_RS_LR1.pdf" }

RECURSIVE SeqsUpTo(_, _)
SeqsUpTo(S, n) ==
    IF n = 0 THEN {<< >>}
    ELSE LET shorter == SeqsUpTo(S, n - 1)
         IN  shorter \cup {Append(q, x) : q \in {r \in shorter : Len(r) = n - 1}, x \in S}

\* an archive is unreadable (zipfile.BadZipFile) or a list of entries
Archives ==
    {[readable |-> FALSE, names |-> << >>]}
    \cup {[readable |-> TRUE, names |-> q] : q \in SeqsUpTo(EntryNames, MaxEntries)}

(***************************************************************************)
(* State.                                                                  *)
(***************************************************************************)
VARIABLES
    config,               \* PortfolioBot.config / StructureValidator.config
    worktype_map,         \* StructureValidator.worktype_map
    discipline_full_map,  \* StructureValidator.discipline_full_map
    archive,              \* the submitted file
    pc,                   \* position in the handling of the submission
    idx,                  \* position of the loop over archive.infolist()
    root_group,           \* locals of _validate_entries
    student,
    discipline,
    pdf_paths,
    context,              \* the CheckContext of the submission
    decision,             \* the DecisionResult
    calls,                \* the validate calls made on the validator by other callers
    bot                   \* PortfolioBot: attempts, manual_queue, the files on
                          \* disk, the ledger, the message being handled

vars == << config, worktype_map, discipline_full_map, archive, pc, idx,
           root_group, student, discipline, pdf_paths, context, decision, calls, bot >>

\* the state of the handling of one submission
flowVars == << archive, pc, idx, root_group, student, discipline, pdf_paths,
               context, decision >>

validatorVars == << config, worktype_map, discipline_full_map >>

loopVars == << idx, root_group, student, discipline, pdf_paths >>

(***************************************************************************)
(* structure_validator.py: StructureValidator                              *)
(***************************************************************************)
\* the last item of a configuration list with the given key value: a later
\* item overwrites an earlier one in a dict built by iteration
LastWith(list, key, value) ==
    list[CHOOSE i \in DOMAIN list :
            /\ list[i][key] = value
            /\ \A j \in DOMAIN list : j > i => list[j][key] # value]

\* _build_worktype_map: folder -> item, an alias item reduced to its pointer
BuildWorktypeMap(worktypes) ==
    [f \in {worktypes[i].folder : i \in DOMAIN worktypes} |->
        LET item == LastWith(worktypes, "folder", f)
        IN  IF "alias_of" \in DOMAIN item THEN [alias_of |-> item.alias_of] ELSE item]

\* variant: the table is keyed by the short code
BuildDisciplineFullMap_ByShort(disciplines) ==
    [f \in {disciplines[i].discipline_short : i \in DOMAIN disciplines} |->
        LastWith(disciplines, "discipline_short", f)]

\* {d["discipline_full"]: d for d in self.disciplines}
BuildDisciplineFullMap(disciplines) ==
    [f \in {disciplines[i].discipline_full : i \in DOMAIN disciplines} |->
        LastWith(disciplines, "discipline_full", f)]

\* variant: the error list is one list shared by all the contexts
NewContext_SharedErrors ==
    [group |-> None, student_short |-> None, discipline_full |-> None,
     discipline_short |-> None, pdf_paths |-> << >>,
     errors |-> IF \E c \in DOMAIN calls : calls[c].pc = "returned"
                THEN calls[CHOOSE c \in DOMAIN calls : calls[c].pc = "returned"].context.errors
                ELSE << >>,
     title_analysis |-> None, worktype_map |-> worktype_map]

\* CheckContext(zip_path=...) with context.worktype_map attached
NewContext ==
    [group |-> None, student_short |-> None, discipline_full |-> None,
     discipline_short |-> None, pdf_paths |-> << >>, errors |-> << >>,
     title_analysis |-> None, worktype_map |-> worktype_map]

\* s.lower().endswith(suf): lower() maps character by character, so only the
\* last Len(suf) characters of s are lowered
LowerEndsWith(s, suf) ==
    Len(s) >= Len(suf) /\ Lower(SubSeq(s, Len(s) - Len(suf) + 1, Len(s))) = suf

\* "__MACOSX" in name or name.lower().endswith("thumbs.db")
Denylisted(name) == Contains(name, "__MACOSX") \/ LowerEndsWith(name, "thumbs.db")

\* ZipInfo.is_dir(): the entry name ends with "/"
IsDir(name) == EndsWith(name, "/")

\* what the loop computes from an entry name alone (lines 62, 71 and 75),
\* worked out once for every entry name of the archives
EntryFacts ==
    [name \in EntryNames \cup CallEntryNames \cup PdfEntryNames \cup StudentEntryNames |->
        [denylisted |-> Denylisted(name), is_dir |-> IsDir(name), parts |-> PathParts(name)]]

\* "__MACOSX" in name or name.lower().endswith("thumbs.db"), for an entry
EntryDenylisted(name) ==
    IF name \in DOMAIN EntryFacts THEN EntryFacts[name].denylisted ELSE Denylisted(name)

\* info.is_dir(), for an entry
EntryIsDir(name) ==
    IF name \in DOMAIN EntryFacts THEN EntryFacts[name].is_dir ELSE IsDir(name)

\* [p for p in name.split("/") if p], for an entry
EntryParts(name) ==
    IF name \in DOMAIN EntryFacts THEN EntryFacts[name].parts ELSE PathParts(name)

\* the file names of the entries of five segments
EntryFileNames ==
    {EntryFacts[n].parts[5] : n \in {m \in DOMAIN EntryFacts : Len(EntryFacts[m].parts) = 5}}

\* the student folders of the entries of five segments
EntryStudents ==
    {EntryFacts[n].parts[2] : n \in {m \in DOMAIN EntryFacts : Len(EntryFacts[m].parts) = 5}}

\* split_filename, worked out once for every file name of the archives
SplitFilenames == [f \in EntryFileNames |-> split_filename(f)]

\* split_filename(filename)
SplitFilenameOf(filename) ==
    IF filename \in DOMAIN SplitFilenames THEN SplitFilenames[filename]
    ELSE split_filename(filename)

\* PDF_NAME_RE.match and base.split("_"), worked out once for every base
BaseFacts ==
    [b \in {SplitFilenames[f][1] : f \in EntryFileNames} |->
        [matches |-> PDF_NAME_RE(b), fields |-> Split(b, "_")]]

\* PDF_NAME_RE.match(base)
MatchesPdfName(base) ==
    IF base \in DOMAIN BaseFacts THEN BaseFacts[base].matches ELSE PDF_NAME_RE(base)

\* base.split("_")
FieldsOf(base) ==
    IF base \in DOMAIN BaseFacts THEN BaseFacts[base].fields ELSE Split(base, "_")

\* WORKCODE_RE.match, worked out once for every work part
WorkCodes ==
    [w \in {BaseFacts[b].fields[4] : b \in {c \in DOMAIN BaseFacts : Len(BaseFacts[c].fields) = 4}} |->
        WORKCODE_RE(w)]

\* WORKCODE_RE.match(work_part)
WorkCodeOf(work_part) ==
    IF work_part \in DOMAIN WorkCodes THEN WorkCodes[work_part] ELSE WORKCODE_RE(work_part)

\* is_valid_student_short, worked out once for every student folder
StudentShorts == [v \in EntryStudents |-> is_valid_student_short(v)]

\* is_valid_student_short(value)
ValidStudentShort(value) ==
    IF value \in DOMAIN StudentShorts THEN StudentShorts[value]
    ELSE is_valid_student_short(value)

\* variant: an alias entry is used as it is
ResolveWorktype_NoHop(worktype_folder) == DictGet(worktype_map, worktype_folder)

\* variant: an alias that names an alias is followed once more
ResolveWorktype_TwoHops(worktype_folder) ==
    LET Hop(worktype_info) ==
          IF worktype_info # None /\ "alias_of" \in DOMAIN worktype_info[1]
          THEN DictGet(worktype_map, worktype_info[1].alias_of)
          ELSE worktype_info
    IN  Hop(Hop(DictGet(worktype_map, worktype_folder)))

\* the work-type entry the folder resolves to: one alias hop at most
ResolveWorktype(worktype_folder) ==
    LET worktype_info == DictGet(worktype_map, worktype_folder)
    IN  IF worktype_info # None /\ "alias_of" \in DOMAIN worktype_info[1]
        THEN DictGet(worktype_map, worktype_info[1].alias_of)
        ELSE worktype_info

\* variant: the whole work part is compared with the expected code
CodeMismatch_WholePart(worktype_info, match) ==
    LET expected_code == DictGet(worktype_info, "code")
        work_part == match[1][1] \o (IF match[1][2] = None THEN "" ELSE match[1][2][1])
    IN  Truthy(expected_code) /\ work_part # expected_code[1]

\* "expected_code and code != expected_code"
CodeMismatch(worktype_info, match) ==
    LET expected_code == DictGet(worktype_info, "code")
        code == match[1][1]
    IN  Truthy(expected_code) /\ code # expected_code[1]

\* bool(worktype_info.get("number_required"))
NumberRequired(worktype_info) == DictGetDefault(worktype_info, "number_required", FALSE)

\* variant: a work type that does not require a number forbids it
NumberForbidden_UnlessRequired(worktype_info) ==
    ~DictGetDefault(worktype_info, "number_required", FALSE)

\* bool(worktype_info.get("number_forbidden"))
NumberForbidden(worktype_info) == DictGetDefault(worktype_info, "number_forbidden", FALSE)

\* the work-part checks of _validate_pdf_name for a resolved entry
WorkPartErrors(worktype_info, work_part, path) ==
    LET Checks(match) ==
          LET number == match[1][2]
          IN  IF match = None
              THEN << ErrorDetail("invalid_filename", "bad work part format", Some(path)) >>
              ELSE (IF CodeMismatch(worktype_info, match)
                    THEN << ErrorDetail("invalid_filename", "work code does not match folder", Some(path)) >>
                    ELSE << >>)
                   \o (IF NumberRequired(worktype_info) /\ number = None
                       THEN << ErrorDetail("invalid_filename", "number required", Some(path)) >>
                       ELSE << >>)
                   \o (IF NumberForbidden(worktype_info) /\ number # None
                       THEN << ErrorDetail("invalid_filename", "number forbidden", Some(path)) >>
                       ELSE << >>)
    IN  Checks(WorkCodeOf(work_part))

\* "group_part, student_part, discipline_part, work_part = base.split("_")"
\* raises ValueError unless the split yields exactly four pieces
UnpackRaises(base) == Len(FieldsOf(base)) # 4

\* variant: the fields are compared with the canonical group and student
FolderPartErrors_Canonical(fields, group, student_short, path) ==
    (IF fields[1] # (IF root_group = None THEN group ELSE root_group[1])
     THEN << ErrorDetail("invalid_filename", "group differs from root folder", Some(path)) >>
     ELSE << >>)
    \o (IF fields[2] # (IF student = None THEN student_short ELSE student[1])
        THEN << ErrorDetail("invalid_filename", "student differs from student folder", Some(path)) >>
        ELSE << >>)

\* the checks of group_part and student_part against the folders of the entry
FolderPartErrors(fields, group, student_short, path) ==
    (IF fields[1] # group
     THEN << ErrorDetail("invalid_filename", "group differs from root folder", Some(path)) >>
     ELSE << >>)
    \o (IF fields[2] # student_short
        THEN << ErrorDetail("invalid_filename", "student differs from student folder", Some(path)) >>
        ELSE << >>)

\* the check of discipline_part against the short code of the catalog
DisciplinePartErrors(fields, discipline_full, path) ==
    LET discipline_info == DictGet(discipline_full_map, discipline_full)
    IN  IF discipline_info # None /\ fields[3] # discipline_info[1].discipline_short
        THEN << ErrorDetail("invalid_filename", "discipline code differs from catalog", Some(path)) >>
        ELSE << >>

\* variant: the pattern of work_part is tested under any folder
ResolvedWorkPartErrors_AnyFolder(fields, worktype_folder, path) ==
    LET worktype_info == ResolveWorktype(worktype_folder)
    IN  IF worktype_info # None
        THEN WorkPartErrors(worktype_info[1], fields[4], path)
        ELSE WorkPartErrors(EmptyDict, fields[4], path)

\* the checks of work_part, run when the folder resolves to an entry
ResolvedWorkPartErrors(fields, worktype_folder, path) ==
    LET worktype_info == ResolveWorktype(worktype_folder)
    IN  IF worktype_info # None
        THEN WorkPartErrors(worktype_info[1], fields[4], path)
        ELSE << >>

\* variant: the checks stop at the first one that fails
ValidatePdfName_FirstOnly(base, group, student_short, discipline_full, worktype_folder, path) ==
    LET First(found) == IF found = << >> THEN << >> ELSE << found[1] >>
        Checks(fields) ==
          First(FolderPartErrors(fields, group, student_short, path)
                \o DisciplinePartErrors(fields, discipline_full, path)
                \o ResolvedWorkPartErrors(fields, worktype_folder, path))
    IN  Checks(FieldsOf(base))

\* _validate_pdf_name: the errors it appends, in order
ValidatePdfName(base, group, student_short, discipline_full, worktype_folder, path) ==
    LET Checks(fields) ==
          FolderPartErrors(fields, group, student_short, path)
          \o DisciplinePartErrors(fields, discipline_full, path)
          \o ResolvedWorkPartErrors(fields, worktype_folder, path)
    IN  Checks(FieldsOf(base))

\* variant: an error already in the list is not recorded again
AppendError_Dedup(errors, e) ==
    IF \E i \in 1..Len(errors) : errors[i] = e THEN errors ELSE Append(errors, e)

\* context.errors.append(e)
AppendError(errors, e) == Append(errors, e)

\* variant: the fourth level counts as an extra level
DirDepthExceeded_FromFour(parts) == Len(parts) >= 4

\* "if len(parts) > 4" for a directory entry
DirDepthExceeded(parts) == Len(parts) > 4

\* variant: the extension is compared as written
PdfExtension_CaseSensitive(ext) == ext = "pdf"

\* ext.lower() == "pdf"
PdfExtension(ext) == Lower(ext) = "pdf"

\* variant: the last segment seen wins
Canonical_LastSeen(current, segment) == Some(segment)

\* "if x is None: x = segment": the first segment seen stays
Canonical(current, segment) == IF current = None THEN Some(segment) ELSE current

\* variant: the first entry is compared as well
Mismatch_FirstToo(current, segment) == Some(segment) # current

\* "elif segment != x": a later entry differs from the canonical segment
Mismatch(current, segment) == current # None /\ Some(segment) # current

\* variant: only a PDF whose name has the four fields is counted
AppendsPdfPath_WellNamed(is_pdf, name_matches) == is_pdf /\ name_matches

\* "pdf_paths.append(name)" stands in the branch of the extension pdf, after
\* the test of the name and whatever its outcome
AppendsPdfPath(is_pdf, name_matches) == is_pdf

\* variant: the whitelist is an elif of the comparison with the canonical
\* discipline, so the entry that sets it is not tested
DisciplineNotAllowed_Elif(current, discipline_full) ==
    current # None /\ discipline_full \notin DOMAIN discipline_full_map

\* "if discipline_full not in self.discipline_full_map"
DisciplineNotAllowed(current, discipline_full) ==
    discipline_full \notin DOMAIN discipline_full_map

\* "if worktype_folder not in self.worktype_map"
UnknownWorktypeFolder(worktype_folder) == worktype_folder \notin DOMAIN worktype_map

\* the body of the loop of _validate_entries for a file entry of 5 segments,
\* its name already split into base and extension: l holds the locals and the
\* errors so far
FileChecks(l, name, parts, base, is_pdf) ==
    LET group == parts[1]
        student_short == parts[2]
        discipline_full == parts[3]
        worktype_folder == parts[4]
        found ==
            (IF Mismatch(l.root_group, group)
             THEN << ErrorDetail("invalid_structure", "several group folders", Some(name)) >>
             ELSE << >>)
            \o (IF Mismatch(l.student, student_short)
                THEN << ErrorDetail("invalid_structure", "several student folders", Some(name)) >>
                ELSE << >>)
            \o (IF ~ValidStudentShort(student_short)
                THEN << ErrorDetail("invalid_structure", "bad student folder format", Some(name)) >>
                ELSE << >>)
            \o (IF Mismatch(l.discipline, discipline_full)
                THEN << ErrorDetail("multiple_disciplines", "exactly one discipline expected", Some(name)) >>
                ELSE << >>)
            \o (IF DisciplineNotAllowed(l.discipline, discipline_full)
                THEN << ErrorDetail("invalid_structure", "discipline not allowed", Some(name)) >>
                ELSE << >>)
            \o (IF UnknownWorktypeFolder(worktype_folder)
                THEN << ErrorDetail("unknown_worktype", "unknown work type folder", Some(name)) >>
                ELSE << >>)
            \o (IF ~is_pdf
                THEN << ErrorDetail("invalid_structure", "only PDF files allowed", Some(name)) >>
                ELSE IF ~MatchesPdfName(base)
                     THEN << ErrorDetail("invalid_filename", "bad PDF file name format", Some(name)) >>
                     ELSE IF UnpackRaises(base) THEN << >>
                     ELSE ValidatePdfName(base, group, student_short, discipline_full,
                                          worktype_folder, name))
        raised == is_pdf /\ MatchesPdfName(base) /\ UnpackRaises(base)
    IN  [root_group |-> Canonical(l.root_group, group),
         student |-> Canonical(l.student, student_short),
         discipline |-> Canonical(l.discipline, discipline_full),
         pdf_paths |-> IF AppendsPdfPath(is_pdf, MatchesPdfName(base)) /\ ~raised
                       THEN Append(l.pdf_paths, name) ELSE l.pdf_paths,
         errors |-> l.errors \o found,
         raised |-> raised]

\* "base, ext = split_filename(filename)", then the checks
FileEntryStep(l, name, parts) ==
    LET Checks(base_ext) == FileChecks(l, name, parts, base_ext[1], PdfExtension(base_ext[2]))
    IN  Checks(SplitFilenameOf(parts[5]))

\* the loop body for an entry that passed the denylist
PartsStep(l, name, parts) ==
    IF parts = << >> THEN l
    ELSE IF EntryIsDir(name)
         THEN IF DirDepthExceeded(parts)
              THEN [l EXCEPT !.errors =
                      AppendError(@, ErrorDetail("invalid_structure", "extra folder level", Some(name)))]
              ELSE l
         ELSE IF Len(parts) # 5
              THEN [l EXCEPT !.errors =
                      AppendError(@, ErrorDetail("invalid_structure", "bad folder structure", Some(name)))]
              ELSE FileEntryStep(l, name, parts)

\* "parts = [p for p in name.split("/") if p]", then the loop body
CheckedEntryStep(l, name) == PartsStep(l, name, EntryParts(name))

\* variant: the error is recorded but the entry is still processed
DenylistedStep_NoContinue(l, name) ==
    CheckedEntryStep(
        [l EXCEPT !.errors =
            AppendError(@, ErrorDetail("invalid_structure", "forbidden service file", Some(name)))],
        name)

\* the loop body for a denylisted entry: one error, then "continue"
DenylistedStep(l, name) ==
    [l EXCEPT !.errors =
        AppendError(@, ErrorDetail("invalid_structure", "forbidden service file", Some(name)))]

\* one iteration of the loop of _validate_entries
EntryStep(l, name) ==
    IF EntryDenylisted(name) THEN DenylistedStep(l, name) ELSE CheckedEntryStep(l, name)

RECURSIVE RunEntries(_, _)
\* the whole loop of _validate_entries over a list of entry names; an
\* exception ends it
RunEntries(l, names) ==
    IF names = << >> \/ l.raised THEN l
    ELSE RunEntries(EntryStep(l, Head(names)), Tail(names))

\* the locals of _validate_entries and the errors, as one record
LoopState ==
    [root_group |-> root_group, student |-> student, discipline |-> discipline,
     pdf_paths |-> pdf_paths, errors |-> context.errors, raised |-> FALSE]

\* variant: the missing PDF is reported only when nothing else was
ZeroPdfErrors_OnlyIfClean(l) ==
    IF l.pdf_paths = << >> /\ l.errors = << >>
    THEN << ErrorDetail("invalid_structure", "no PDF found", None) >>
    ELSE << >>

\* variant: the short code is read from the ledger column key
DisciplineShort_WrongKey(name) ==
    IF name \in DOMAIN discipline_full_map
    THEN DictGet(discipline_full_map[name], "sheet_column_header")
    ELSE None

\* self.discipline_full_map.get(discipline, {}).get("discipline_short")
DisciplineShort(name) ==
    IF name \in DOMAIN discipline_full_map
    THEN DictGet(discipline_full_map[name], "discipline_short")
    ELSE None

\* "if not pdf_paths": the error of an archive without any PDF
ZeroPdfErrors(l) ==
    IF l.pdf_paths = << >>
    THEN << ErrorDetail("invalid_structure", "no PDF found", None) >>
    ELSE << >>

\* variant: a discipline outside the catalog is not reported
FinishContext_ListedOnly(ctx, l) ==
    [ctx EXCEPT
        !.group = IF Truthy(l.root_group) THEN l.root_group ELSE @,
        !.student_short = IF Truthy(l.student) THEN l.student ELSE @,
        !.discipline_full =
            IF Truthy(l.discipline) /\ l.discipline[1] \in DOMAIN discipline_full_map
            THEN l.discipline ELSE @,
        !.discipline_short =
            IF Truthy(l.discipline) THEN DisciplineShort(l.discipline[1]) ELSE @,
        !.pdf_paths = l.pdf_paths,
        !.errors = l.errors \o ZeroPdfErrors(l)]

\* the statements of _validate_entries after the loop, applied to a context
FinishContext(ctx, l) ==
    [ctx EXCEPT
        !.group = IF Truthy(l.root_group) THEN l.root_group ELSE @,
        !.student_short = IF Truthy(l.student) THEN l.student ELSE @,
        !.discipline_full = IF Truthy(l.discipline) THEN l.discipline ELSE @,
        !.discipline_short =
            IF Truthy(l.discipline) THEN DisciplineShort(l.discipline[1]) ELSE @,
        !.pdf_paths = l.pdf_paths,
        !.errors = l.errors \o ZeroPdfErrors(l)]

\* the locals of _validate_entries when the loop starts
InitialLocals ==
    [root_group |-> None, student |-> None, discipline |-> None,
     pdf_paths |-> << >>, errors |-> << >>, raised |-> FALSE]

\* validate on a readable archive, as a function of its entry names (what it
\* returns when no iteration raises)
ValidateEntries(names) == FinishContext(NewContext, RunEntries(InitialLocals, names))

\* variant: the statements after the loop also run for an unreadable archive
BadZipContext_ThenFinish ==
    FinishContext([NewContext EXCEPT !.errors =
                      << ErrorDetail("invalid_archive", "not a valid ZIP archive", None) >>],
                  [InitialLocals EXCEPT !.errors =
                      << ErrorDetail("invalid_archive", "not a valid ZIP archive", None) >>])

\* "except zipfile.BadZipFile": the context validate returns for an
\* unreadable archive
BadZipContext ==
    [NewContext EXCEPT !.errors =
        << ErrorDetail("invalid_archive", "not a valid ZIP archive", None) >>]

\* validate: the context is created and the archive opened
Validate ==
    /\ pc = "validate"
    /\ IF archive.readable
       THEN /\ context' = NewContext
            /\ idx' = 1
            /\ root_group' = None
            /\ student' = None
            /\ discipline' = None
            /\ pdf_paths' = << >>
            /\ pc' = "entries"
       ELSE /\ context' = BadZipContext
            /\ UNCHANGED loopVars
            /\ pc' = "validated"
    /\ UNCHANGED << validatorVars, calls, bot, archive, decision >>

\* _validate_entries: one iteration of the loop over archive.infolist()
ValidateEntry ==
    /\ pc = "entries"
    /\ idx <= Len(archive.names)
    /\ \E l \in {EntryStep(LoopState, archive.names[idx])} :
           /\ root_group' = l.root_group
           /\ student' = l.student
           /\ discipline' = l.discipline
           /\ pdf_paths' = l.pdf_paths
           /\ context' = [context EXCEPT !.errors = l.errors]
           \* an exception leaves validate and _handle_document
           /\ pc' = IF l.raised THEN "raised" ELSE pc
    /\ idx' = idx + 1
    /\ UNCHANGED << validatorVars, calls, bot, archive, decision >>

\* _validate_entries after the loop, and the return of validate
ValidateFinish ==
    /\ pc = "entries"
    /\ idx > Len(archive.names)
    /\ context' = FinishContext(context, LoopState)
    /\ pc' = "validated"
    /\ UNCHANGED << validatorVars, calls, bot, archive, loopVars, decision >>

(***************************************************************************)
(* datator.py: the PDF checks between validate and decide                  *)
(***************************************************************************)
\* what PdfController.validate_pdf can return for one PDF
PdfVerdicts == {"ok", "too few pages", "unreadable PDF"}

\* the confidences TitlePageAnalyzer.analyze can return
AnalyzerConfidences == {0, 60, 100}

\* the errors of the loop over context.pdf_paths, given each PDF's verdict
RECURSIVE PdfErrors(_, _)
PdfErrors(paths, verdict) ==
    IF paths = << >> THEN << >>
    ELSE (IF verdict[1] = "ok" THEN << >>
          ELSE << ErrorDetail("invalid_pdf", verdict[1], Some(paths[1])) >>)
         \o PdfErrors(Tail(paths), Tail(verdict))

\* _handle_document after validate: _validate_pdfs runs when no error was found
HandlePdfs ==
    /\ pc = "validated"
    /\ IF context.errors # << >>
       THEN UNCHANGED context
       ELSE \/ \* zipfile.BadZipFile when the archive is opened again
               context' = [context EXCEPT !.errors =
                   Append(@, ErrorDetail("invalid_archive", "not a valid ZIP archive", None))]
            \/ \E verdict \in [1..Len(context.pdf_paths) -> PdfVerdicts] :
                 LET checked == [context EXCEPT !.errors = @ \o PdfErrors(context.pdf_paths, verdict)]
                     title_cfg == DictGetDefault(config, "title_check", EmptyDict)
                 IN  IF DictGetDefault(title_cfg, "enabled", FALSE) /\ context.pdf_paths # << >>
                     THEN \/ \* extract_title_page returned None
                             context' = [checked EXCEPT !.errors =
                                 Append(@, ErrorDetail("invalid_pdf", "no title page",
                                                       Some(context.pdf_paths[1])))]
                          \/ \E s \in AnalyzerConfidences, z \in AnalyzerConfidences :
                                context' = [checked EXCEPT !.title_analysis =
                                    Some([signature_confidence |-> s, zacheno_confidence |-> z])]
                     ELSE context' = checked
    /\ pc' = "decide"
    /\ UNCHANGED << validatorVars, calls, bot, archive, loopVars, decision >>

(***************************************************************************)
(* decision_engine.py                                                      *)
(***************************************************************************)
\* float(x) of a JSON number: the same number
Float(x) == x

\* the configured default of both thresholds, 0.6
DefaultThreshold == 60

DecisionResult(status, reason) == [status |-> status, reason |-> reason]

\* variant: errors are overlooked once a title analysis is attached
HasErrors_UnlessTitle(ctx) == ctx.errors # << >> /\ ctx.title_analysis = None

\* "if context.errors"
HasErrors(ctx) == ctx.errors # << >>

\* variant: the "enabled" switch is not consulted
TitleCheckApplies_IgnoreEnabled(ctx, title_config) == ctx.title_analysis # None

\* title_config.get("enabled") and context.title_analysis
TitleCheckApplies(ctx, title_config) ==
    DictGetDefault(title_config, "enabled", FALSE) /\ ctx.title_analysis # None

\* variant: a default of 0.5
Threshold_OtherDefault(title_config, key) == Float(DictGetDefault(title_config, key, 50))

\* float(title_config.get(key, 0.6))
Threshold(title_config, key) == Float(DictGetDefault(title_config, key, DefaultThreshold))

\* variant: a strict comparison
ConfidenceOk_Strict(confidence, threshold) == confidence > threshold

\* confidence >= threshold
ConfidenceOk(confidence, threshold) == confidence >= threshold

\* variant: an unconfirmed title page is deferred to a human
TitleDecision_Manual(signature_ok, zacheno_ok) ==
    IF signature_ok \/ zacheno_ok
    THEN DecisionResult("accepted", "title page check passed")
    ELSE DecisionResult("manual_review", "signature or mark not confirmed")

\* the result of the title check
TitleDecision(signature_ok, zacheno_ok) ==
    IF signature_ok \/ zacheno_ok
    THEN DecisionResult("accepted", "title page check passed")
    ELSE DecisionResult("rejected", "signature or mark not confirmed")

decide(ctx, cfg) ==
    IF HasErrors(ctx)
    THEN DecisionResult("rejected", "errors in structure or file names")
    ELSE LET title_config == DictGetDefault(cfg, "title_check", EmptyDict)
         IN  IF TitleCheckApplies(ctx, title_config)
             THEN LET signature_threshold == Threshold(title_config, "signature_threshold")
                      zacheno_threshold == Threshold(title_config, "zacheno_threshold")
                      signature_ok ==
                          ConfidenceOk(ctx.title_analysis[1].signature_confidence,
                                       signature_threshold)
                      zacheno_ok ==
                          ConfidenceOk(ctx.title_analysis[1].zacheno_confidence,
                                       zacheno_threshold)
                  IN  TitleDecision(signature_ok, zacheno_ok)
             ELSE DecisionResult("accepted", "structure check passed")

\* _handle_document: decision = decide(context, self.config)
Decide ==
    /\ pc = "decide"
    /\ decision' = Some(decide(context, config))
    /\ pc' = "done"
    /\ UNCHANGED << validatorVars, calls, bot, archive, loopVars, context >>

(***************************************************************************)
(* The handling of one submitted archive: validate, PDF checks, decide.    *)
(***************************************************************************)
\* what one handler did besides changing the bot: the messages it sent, the
\* outcome of its update_sheet call, the exception it ended with
NoEffects == [sent |-> << >>, sheet |-> "none", raised |-> None]

\* PortfolioBot.__init__: no attempts, an empty ManualQueue; nothing on disk,
\* no mark in the ledger, no message received
NoBot ==
    [attempts |-> EmptyDict,
     manual_queue |-> [items |-> EmptyDict, counter |-> 0],
     files |-> {},
     ledger |-> {},
     streak |-> EmptyDict,
     message |-> None,
     effects |-> NoEffects,
     handled |-> 0]

\* a validate call that was not made yet
IdleCall ==
    [pc |-> "idle", archive |-> [readable |-> TRUE, names |-> << >>], idx |-> 0,
     root_group |-> None, student |-> None, discipline |-> None,
     pdf_paths |-> << >>, context |-> None]

NoCalls == [c \in 1..MaxCalls |-> IdleCall]

Init ==
    /\ config \in PipelineConfigs
    /\ worktype_map = BuildWorktypeMap(config.worktypes)
    /\ discipline_full_map = BuildDisciplineFullMap(config.disciplines)
    /\ archive \in Archives
    /\ pc = "validate"
    /\ idx = 0
    /\ root_group = None
    /\ student = None
    /\ discipline = None
    /\ pdf_paths = << >>
    /\ context = None
    /\ decision = None
    /\ calls = NoCalls
    /\ bot = NoBot

Next ==
    \/ Validate
    \/ ValidateEntry
    \/ ValidateFinish
    \/ HandlePdfs
    \/ Decide

Spec == Init /\ [][Next]_vars

(***************************************************************************)
(* decide as a function of any context and any configuration.              *)
(***************************************************************************)
\* the error lists of the contexts handed to decide
DecideErrorLists ==
    { << >>,
      << ErrorDetail("invalid_structure", "bad", Some("x")) >>,
      << ErrorDetail("invalid_filename", "bad PDF file name format", Some("x")),
         ErrorDetail("invalid_pdf", "too few pages", Some("x")) >> }

\* the title analyses of the contexts handed to decide
DecideTitleAnalyses ==
    {None} \cup {Some([signature_confidence |-> s, zacheno_confidence |-> z]) :
                    s \in Hundredths, z \in Hundredths}

InitDecide ==
    /\ config \in Configs
    /\ worktype_map = BuildWorktypeMap(config.worktypes)
    /\ discipline_full_map = BuildDisciplineFullMap(config.disciplines)
    /\ archive = [readable |-> TRUE, names |-> << >>]
    /\ pc = "decide"
    /\ idx = 0
    /\ root_group = None
    /\ student = None
    /\ discipline = None
    /\ pdf_paths = << >>
    /\ \E e \in DecideErrorLists, t \in DecideTitleAnalyses :
          context = [NewContext EXCEPT !.errors = e, !.title_analysis = t]
    /\ decision = None
    /\ calls = NoCalls
    /\ bot = NoBot

NextDecide == Decide

SpecDecide == InitDecide /\ [][NextDecide]_vars

(***************************************************************************)
(* Calls of validate on one validator: each call has its own locals and    *)
(* its own context, the validator's tables are shared.  The calls may run  *)
(* one after the other or interleaved, iteration by iteration.             *)
(***************************************************************************)
\* the archives the calls are made with
CallArchives ==
    {[readable |-> FALSE, names |-> << >>]}
    \cup {[readable |-> TRUE, names |-> q] : q \in SeqsUpTo(CallEntryNames, MaxEntries)}

\* variant: the locals are kept on the validator, shared by all the calls
CallLoopState_Shared(c) ==
    [root_group |-> calls[1].root_group, student |-> calls[1].student,
     discipline |-> calls[1].discipline, pdf_paths |-> calls[1].pdf_paths,
     errors |-> calls[c].context.errors, raised |-> FALSE]

\* the locals of _validate_entries of a call and the errors of its context
CallLoopState(c) ==
    [root_group |-> calls[c].root_group, student |-> calls[c].student,
     discipline |-> calls[c].discipline, pdf_paths |-> calls[c].pdf_paths,
     errors |-> calls[c].context.errors, raised |-> FALSE]

\* validate is called: the context is created and the archive opened
CallValidate(c) ==
    /\ calls[c].pc = "idle"
    /\ c > 1 => calls[c - 1].pc # "idle"
    /\ \E a \in CallArchives :
          calls' = [calls EXCEPT ![c] =
              IF a.readable
              THEN [IdleCall EXCEPT !.pc = "entries", !.archive = a, !.idx = 1,
                                    !.context = NewContext]
              ELSE [IdleCall EXCEPT !.pc = "returned", !.archive = a,
                                    !.context = BadZipContext]]
    /\ UNCHANGED << validatorVars, flowVars, bot >>

\* one iteration of the loop of a call
CallValidateEntry(c) ==
    /\ calls[c].pc = "entries"
    /\ calls[c].idx <= Len(calls[c].archive.names)
    /\ \E l \in {EntryStep(CallLoopState(c), calls[c].archive.names[calls[c].idx])} :
          calls' = [calls EXCEPT ![c] =
              [@ EXCEPT !.root_group = l.root_group, !.student = l.student,
                        !.discipline = l.discipline, !.pdf_paths = l.pdf_paths,
                        !.context = [@ EXCEPT !.errors = l.errors],
                        !.idx = @ + 1,
                        !.pc = IF l.raised THEN "raised" ELSE @]]
    /\ UNCHANGED << validatorVars, flowVars, bot >>

\* the statements after the loop of a call, and its return
CallValidateFinish(c) ==
    /\ calls[c].pc = "entries"
    /\ calls[c].idx > Len(calls[c].archive.names)
    /\ calls' = [calls EXCEPT ![c] =
          [@ EXCEPT !.context = FinishContext(@, CallLoopState(c)), !.pc = "returned"]]
    /\ UNCHANGED << validatorVars, flowVars, bot >>

InitCalls ==
    /\ config = CatalogConfig
    /\ worktype_map = BuildWorktypeMap(config.worktypes)
    /\ discipline_full_map = BuildDisciplineFullMap(config.disciplines)
    /\ archive = [readable |-> TRUE, names |-> << >>]
    /\ pc = "idle"
    /\ idx = 0
    /\ root_group = None
    /\ student = None
    /\ discipline = None
    /\ pdf_paths = << >>
    /\ context = None
    /\ decision = None
    /\ calls = NoCalls
    /\ bot = NoBot

NextCalls ==
    \E c \in 1..MaxCalls :
       \/ CallValidate(c)
       \/ CallValidateEntry(c)
       \/ CallValidateFinish(c)

SpecCalls == InitCalls /\ [][NextCalls]_vars

(***************************************************************************)
(* The pipeline run on archives of PDF entries: the same steps as Spec,    *)
(* the archives drawn from the names that exercise the file-name rules.    *)
(***************************************************************************)
PdfArchives ==
    {[readable |-> FALSE, names |-> << >>]}
    \cup {[readable |-> TRUE, names |-> q] : q \in SeqsUpTo(PdfEntryNames, MaxEntries)}

InitPdfNames ==
    /\ config = CatalogConfig
    /\ worktype_map = BuildWorktypeMap(config.worktypes)
    /\ discipline_full_map = BuildDisciplineFullMap(config.disciplines)
    /\ archive \in PdfArchives
    /\ pc = "validate"
    /\ idx = 0
    /\ root_group = None
    /\ student = None
    /\ discipline = None
    /\ pdf_paths = << >>
    /\ context = None
    /\ decision = None
    /\ calls = NoCalls
    /\ bot = NoBot

SpecPdfNames == InitPdfNames /\ [][Next]_vars

(***************************************************************************)
(* The pipeline run on archives whose entries differ by their student      *)
(* folder: the same steps as Spec.                                         *)
(***************************************************************************)
StudentArchives ==
    {[readable |-> FALSE, names |-> << >>]}
    \cup {[readable |-> TRUE, names |-> q] : q \in SeqsUpTo(StudentEntryNames, MaxEntries)}

InitStudents ==
    /\ config = CatalogConfig
    /\ worktype_map = BuildWorktypeMap(config.worktypes)
    /\ discipline_full_map = BuildDisciplineFullMap(config.disciplines)
    /\ archive \in StudentArchives
    /\ pc = "validate"
    /\ idx = 0
    /\ root_group = None
    /\ student = None
    /\ discipline = None
    /\ pdf_paths = << >>
    /\ context = None
    /\ decision = None
    /\ calls = NoCalls
    /\ bot = NoBot

SpecStudents == InitStudents /\ [][Next]_vars

(***************************************************************************)
(* datator.py: ManualQueue                                                 *)
(***************************************************************************)
\* ManualQueueItem(item_id=0, zip_path, group, student_short, discipline_info, chat_id)
ManualQueueItem(zip_path, group, student_short, discipline_info, chat_id) ==
    [item_id |-> 0, zip_path |-> zip_path, group |-> group,
     student_short |-> student_short, discipline_info |-> discipline_info,
     chat_id |-> chat_id]

\* the dict without the key: "self._items.pop(item_id, None)"
DictPop(d, k) == [j \in DOMAIN d \ {k} |-> d[j]]

\* variant: the id is the number of stored items plus one
QueueAdd_ByLength(queue, item) ==
    LET item_id == Cardinality(DOMAIN queue.items) + 1
    IN  [items |-> (item_id :> [item EXCEPT !.item_id = item_id]) @@ queue.items,
         counter |-> queue.counter + 1]

\* ManualQueue.add: the queue after the call; the call returns its counter
QueueAdd(queue, item) ==
    LET counter == queue.counter + 1
    IN  [items |-> (counter :> [item EXCEPT !.item_id = counter]) @@ queue.items,
         counter |-> counter]

\* ManualQueue.get
QueueGet(queue, item_id) == DictGet(queue.items, item_id)

\* ManualQueue.remove
QueueRemove(queue, item_id) == [queue EXCEPT !.items = DictPop(@, item_id)]

(***************************************************************************)
(* A ManualQueue under any sequence of add, get and remove calls.          *)
(***************************************************************************)
\* the items handed to add: fresh objects, as _handle_manual_review makes
QueueItems ==
    { ManualQueueItem(<< "manual", "G1", "Ivanov IO", "Radio", "a.zip" >>, "G1", "Ivanov IO",
                      [discipline_full |-> "Radio"], chat_id) : chat_id \in {101, 109} }

\* the ids handed to get and remove
QueueIds == 0..(MaxItems + 1)

\* a call and what it returned
QueueCall(op, arg, returned) == [op |-> op, arg |-> arg, returned |-> returned]

InitQueue ==
    /\ config = CatalogConfig
    /\ worktype_map = BuildWorktypeMap(config.worktypes)
    /\ discipline_full_map = BuildDisciplineFullMap(config.disciplines)
    /\ archive = [readable |-> TRUE, names |-> << >>]
    /\ pc = "queue"
    /\ idx = 0
    /\ root_group = None
    /\ student = None
    /\ discipline = None
    /\ pdf_paths = << >>
    /\ context = None
    /\ decision = None
    /\ calls = NoCalls
    /\ bot = NoBot

\* item_id = queue.add(item)
QueueAddCall ==
    /\ pc = "queue"
    /\ bot.manual_queue.counter < MaxItems
    /\ \E item \in QueueItems :
          \E queue \in {QueueAdd(bot.manual_queue, item)} :
             bot' = [bot EXCEPT !.manual_queue = queue,
                                !.message = Some(QueueCall("add", item, Some(queue.counter)))]
    /\ UNCHANGED << validatorVars, flowVars, calls >>

\* item = queue.get(item_id)
QueueGetCall ==
    /\ pc = "queue"
    /\ \E item_id \in QueueIds :
          bot' = [bot EXCEPT !.message =
                     Some(QueueCall("get", item_id, QueueGet(bot.manual_queue, item_id)))]
    /\ UNCHANGED << validatorVars, flowVars, calls >>

\* queue.remove(item_id)
QueueRemoveCall ==
    /\ pc = "queue"
    /\ \E item_id \in QueueIds :
          bot' = [bot EXCEPT !.manual_queue = QueueRemove(@, item_id),
                             !.message = Some(QueueCall("remove", item_id, None))]
    /\ UNCHANGED << validatorVars, flowVars, calls >>

NextQueue ==
    \/ QueueAddCall
    \/ QueueGetCall
    \/ QueueRemoveCall

SpecQueue == InitQueue /\ [][NextQueue]_vars

(***************************************************************************)
(* datator.py: PortfolioBot, its handlers run one after the other          *)
(* (TeleBot(token, threaded=False)).  The transport and the file system    *)
(* are taken to work: send_message and download_file return, a move or a   *)
(* removal of an existing file succeeds.                                   *)
(***************************************************************************)
\* the sections of config.json the bot reads besides the catalog:
\* limits.max_zip_bytes, admin.admin_ids and google_sheets, which is
\* missing, disabled, or present with "enabled" left to its default
BotConfigs ==
    { sheets @@ [limits |-> [max_zip_bytes |-> 10], admin |-> [admin_ids |-> << 9 >>]]
             @@ CatalogConfig :
        sheets \in { EmptyDict,
                     [google_sheets |-> [enabled |-> FALSE]],
                     [google_sheets |-> [spreadsheet_id |-> "journal"]] } }

\* message.from_user.id of the senders: a student and an administrator
Users == {1, 9}

\* message.chat.id of the private chat with a user
ChatOf(user_id) == user_id + 100

\* document.file_name
FileNames == {"a.zip", "a.RAR", "a.txt"}

\* document.file_size
FileSizes == {10, 11}

\* the archives submitted: unreadable, conforming (of two groups), faulty
BotArchives ==
    { [readable |-> FALSE, names |-> << >>],
      [readable |-> TRUE, names |-> << "G1/Ivanov IO/Radio/Labs/G1_Ivanov IO_RS_LR1.pdf" >>],
      [readable |-> TRUE, names |-> << "G2/Ivanov IO/Radio/Labs/G2_Ivanov IO_RS_LR2.pdf" >>],
      [readable |-> TRUE, names |-> << "G1/Ivanov IO/Radio/Labs/report.pdf" >>] }

\* the words after the command in message.text
CommandArgs == { << >>, << "1" >>, << "2" >>, << "7" >>, << "x" >>, << "1", "2" >> }

\* int(token): None stands for ValueError
ParseInt(token) ==
    LET Decimal == [t \in {"0", "1", "2", "3", "4", "5", "6", "7", "8", "9"} |->
                       CHOOSE n \in 0..9 : Char("0123456789", n + 1) = t]
    IN  IF token \in DOMAIN Decimal THEN Some(Decimal[token]) ELSE None

\* temp_dir / document.file_name
TempPath(file_name) == << "temp", file_name >>

\* Path(path).name
PathName(path) == path[Len(path)]

\* what update_sheet can do: return success or failure with the section
\* "google_sheets" in the configuration, raise KeyError without it
\* (google_service.py: config["google_sheets"] stands before the try)
SheetOutcomes == IF "google_sheets" \in DOMAIN config THEN {"ok", "failed"} ELSE {"raised"}

\* self.bot.send_message(chat_id, text)
Send(b, chat_id, text) ==
    [b EXCEPT !.effects.sent = Append(@, [chat_id |-> chat_id, text |-> text])]

\* the handler ends with an exception
Raise(b, exception) == [b EXCEPT !.effects.raised = Some(exception)]

\* _is_admin
IsAdmin(user_id) ==
    LET admin_ids == DictGetDefault(DictGetDefault(config, "admin", EmptyDict), "admin_ids", << >>)
    IN  \E i \in DOMAIN admin_ids : admin_ids[i] = user_id

\* variant: the counter is not reset when it reaches three
RegisterFailure_NoReset(b, chat_id, user_id) ==
    LET count == DictGetDefault(b.attempts, user_id, 0) + 1
        counted == [b EXCEPT !.attempts = (user_id :> count) @@ @]
    IN  IF count >= 3
        THEN Send(counted, chat_id, "three failures in a row, manual review suggested")
        ELSE counted

\* _register_failure
RegisterFailure(b, chat_id, user_id) ==
    LET count == DictGetDefault(b.attempts, user_id, 0) + 1
        counted == [b EXCEPT !.attempts = (user_id :> count) @@ @]
    IN  IF count >= 3
        THEN Send([counted EXCEPT !.attempts = (user_id :> 0) @@ @], chat_id,
                  "three failures in a row, manual review suggested")
        ELSE counted

\* _reset_attempts
ResetAttempts(b, user_id) == [b EXCEPT !.attempts = (user_id :> 0) @@ @]

\* _discipline_info
DisciplineInfo(discipline_full) ==
    IF \E i \in DOMAIN config.disciplines :
          config.disciplines[i].discipline_full = discipline_full
    THEN config.disciplines[CHOOSE i \in DOMAIN config.disciplines :
            /\ config.disciplines[i].discipline_full = discipline_full
            /\ \A j \in 1..(i - 1) : config.disciplines[j].discipline_full # discipline_full]
    ELSE [discipline_full |-> discipline_full]

\* update_sheet returned success: the cell of the student is set
MarkLedger(b, group, student_short, discipline_info) ==
    [b EXCEPT !.effects.sheet = "ok",
              !.ledger = @ \cup {<< group, student_short, discipline_info.discipline_full >>}]

\* _move_to_storage: shutil.move raises when the source is missing
MoveToStorage(b, path, group, student_short, discipline_info) ==
    IF path \notin b.files THEN Raise(b, "FileNotFoundError")
    ELSE [b EXCEPT !.files = (@ \ {path})
              \cup {<< "storage", group, student_short, discipline_info.discipline_full,
                       PathName(path) >>}]

\* _handle_manual_review
HandleManualReview(b, chat_id, ctx, temp_path) ==
    LET target_path == << "manual", ctx.group[1], ctx.student_short[1], ctx.discipline_full[1],
                          PathName(temp_path) >>
        item == ManualQueueItem(target_path, ctx.group[1], ctx.student_short[1],
                                DisciplineInfo(ctx.discipline_full[1]), chat_id)
    IN  Send([b EXCEPT !.files = (@ \ {temp_path}) \cup {target_path},
                       !.manual_queue = QueueAdd(@, item)],
             chat_id, "ledger not marked, send to manual review")

\* the history of a user's submissions: one more rejected in a row, or none
Rejected(b, user_id) ==
    [b EXCEPT !.streak = (user_id :> DictGetDefault(b.streak, user_id, 0) + 1) @@ @]

NotRejected(b, user_id) == [b EXCEPT !.streak = (user_id :> 0) @@ @]

\* a handler starts on a message
Received(b, message) ==
    [b EXCEPT !.message = Some(message), !.effects = NoEffects, !.handled = @ + 1]

\* _handle_document, lines 262-275: update_sheet was called
AfterSheet(b, message, ctx, sheet) ==
    LET temp_path == TempPath(message.file_name)
        discipline_info == DisciplineInfo(ctx.discipline_full[1])
    IN  IF sheet = "raised" THEN Raise([b EXCEPT !.effects.sheet = "raised"], "KeyError")
        ELSE IF sheet = "failed"
             THEN HandleManualReview([b EXCEPT !.effects.sheet = "failed"],
                                     message.chat_id, ctx, temp_path)
             ELSE Send(MoveToStorage(MarkLedger(b, ctx.group[1], ctx.student_short[1],
                                                discipline_info),
                                     temp_path, ctx.group[1], ctx.student_short[1],
                                     discipline_info),
                       message.chat_id, "portfolio accepted")

\* _handle_document from "if decision.status == DecisionStatus.REJECTED"
AfterDecision(b, message, ctx, result, sheet) ==
    IF result.status = "rejected"
    THEN [Send(RegisterFailure(Rejected(b, message.user_id), message.chat_id, message.user_id),
               message.chat_id, "report")
            EXCEPT !.files = @ \ {TempPath(message.file_name)}]
    ELSE LET reset == ResetAttempts(NotRejected(b, message.user_id), message.user_id)
             sheets_cfg == DictGetDefault(config, "google_sheets", EmptyDict)
         IN  IF result.status # "accepted" THEN reset
             ELSE IF DictGetDefault(sheets_cfg, "enabled", TRUE)
                  THEN AfterSheet(reset, message, ctx, sheet)
                  ELSE Send(MoveToStorage(reset, TempPath(message.file_name), ctx.group[1],
                                          ctx.student_short[1],
                                          DisciplineInfo(ctx.discipline_full[1])),
                            message.chat_id, "portfolio accepted")

\* handle_manual_accept
HandleManualAccept(b, message, sheet) ==
    LET Found(item) ==
          IF sheet = "raised" THEN Raise([b EXCEPT !.effects.sheet = "raised"], "KeyError")
          ELSE IF sheet = "failed"
               THEN Send([b EXCEPT !.effects.sheet = "failed"], message.chat_id,
                         "ledger not marked")
               ELSE LET moved == MoveToStorage(
                                    MarkLedger(b, item.group, item.student_short,
                                               item.discipline_info),
                                    item.zip_path, item.group, item.student_short,
                                    item.discipline_info)
                    IN  IF moved.effects.raised # None THEN moved
                        ELSE Send(Send([moved EXCEPT !.manual_queue =
                                           QueueRemove(@, item.item_id)],
                                       item.chat_id, "accepted after manual review"),
                                  message.chat_id, "done")
        Parsed(item_id) ==
          IF item_id = None THEN Raise(b, "ValueError")
          ELSE IF QueueGet(b.manual_queue, item_id[1]) = None
               THEN Send(b, message.chat_id, "item not found")
               ELSE Found(QueueGet(b.manual_queue, item_id[1])[1])
    IN  IF ~IsAdmin(message.user_id) THEN b
        ELSE IF Len(message.args) # 1 THEN Send(b, message.chat_id, "item id required")
        ELSE Parsed(ParseInt(message.args[1]))

\* variant: the administrator is not checked
HandleManualReject_AnyUser(b, message) ==
    LET Found(item) ==
          Send(Send([b EXCEPT !.files = @ \ {item.zip_path},
                              !.manual_queue = QueueRemove(@, item.item_id)],
                    item.chat_id, "rejected after manual review"),
               message.chat_id, "done")
        Parsed(item_id) ==
          IF item_id = None THEN Raise(b, "ValueError")
          ELSE IF QueueGet(b.manual_queue, item_id[1]) = None
               THEN Send(b, message.chat_id, "item not found")
               ELSE Found(QueueGet(b.manual_queue, item_id[1])[1])
    IN  IF Len(message.args) # 1 THEN Send(b, message.chat_id, "item id required")
        ELSE Parsed(ParseInt(message.args[1]))

\* handle_manual_reject
HandleManualReject(b, message) ==
    LET Found(item) ==
          Send(Send([b EXCEPT !.files = @ \ {item.zip_path},
                              !.manual_queue = QueueRemove(@, item.item_id)],
                    item.chat_id, "rejected after manual review"),
               message.chat_id, "done")
        Parsed(item_id) ==
          IF item_id = None THEN Raise(b, "ValueError")
          ELSE IF QueueGet(b.manual_queue, item_id[1]) = None
               THEN Send(b, message.chat_id, "item not found")
               ELSE Found(QueueGet(b.manual_queue, item_id[1])[1])
    IN  IF ~IsAdmin(message.user_id) THEN b
        ELSE IF Len(message.args) # 1 THEN Send(b, message.chat_id, "item id required")
        ELSE Parsed(ParseInt(message.args[1]))

(***************************************************************************)
(* The bot handling documents and the commands of the manual review.       *)
(***************************************************************************)
InitBot ==
    /\ config \in BotConfigs
    /\ worktype_map = BuildWorktypeMap(config.worktypes)
    /\ discipline_full_map = BuildDisciplineFullMap(config.disciplines)
    /\ archive = [readable |-> TRUE, names |-> << >>]
    /\ pc = "idle"
    /\ idx = 0
    /\ root_group = None
    /\ student = None
    /\ discipline = None
    /\ pdf_paths = << >>
    /\ context = None
    /\ decision = None
    /\ calls = NoCalls
    /\ bot = NoBot

\* _handle_document up to "context = self.validator.validate(str(temp_path))":
\* the file is refused for its name or its size, or downloaded
ReceiveDocument ==
    /\ pc = "idle"
    /\ bot.handled < MaxMessages
    /\ \E user_id \in Users, file_name \in FileNames, file_size \in FileSizes,
          submitted \in BotArchives :
          LET message == [kind |-> "document", chat_id |-> ChatOf(user_id),
                          user_id |-> user_id, file_name |-> file_name]
              Refused(text) ==
                /\ bot' = Send(RegisterFailure(Rejected(Received(bot, message), user_id),
                                               message.chat_id, user_id),
                               message.chat_id, text)
                /\ UNCHANGED flowVars
          IN  IF EndsWith(Lower(file_name), ".rar")
              THEN Refused("RAR archives are not supported")
              ELSE IF ~EndsWith(Lower(file_name), ".zip")
                   THEN Refused("only ZIP archives are supported")
                   ELSE IF file_size > config.limits.max_zip_bytes
                        THEN Refused("archive too large")
                        ELSE /\ bot' = [Received(bot, message) EXCEPT
                                           !.files = @ \cup {TempPath(file_name)}]
                             /\ archive' = submitted
                             /\ pc' = "validate"
                             /\ idx' = 0
                             /\ root_group' = None
                             /\ student' = None
                             /\ discipline' = None
                             /\ pdf_paths' = << >>
                             /\ context' = None
                             /\ decision' = None
    /\ UNCHANGED << validatorVars, calls >>

\* _handle_document after decide, to its return or to the exception of
\* update_sheet; the locals of the handler are gone with it
Dispose ==
    /\ pc = "done"
    /\ bot.message # None
    /\ \E sheet \in SheetOutcomes :
          bot' = AfterDecision(bot, bot.message[1], context, decision[1], sheet)
    /\ pc' = "idle"
    /\ archive' = [readable |-> TRUE, names |-> << >>]
    /\ idx' = 0
    /\ root_group' = None
    /\ student' = None
    /\ discipline' = None
    /\ pdf_paths' = << >>
    /\ context' = None
    /\ decision' = None
    /\ UNCHANGED << validatorVars, calls >>

\* handle_manual_accept on a command of any user
ManualAccept ==
    /\ pc = "idle"
    /\ bot.handled < MaxMessages
    /\ \E user_id \in Users, args \in CommandArgs, sheet \in SheetOutcomes :
          \E message \in {[kind |-> "manual_accept", chat_id |-> ChatOf(user_id),
                            user_id |-> user_id, args |-> args]} :
             bot' = HandleManualAccept(Received(bot, message), message, sheet)
    /\ UNCHANGED << validatorVars, flowVars, calls >>

\* handle_manual_reject on a command of any user
ManualReject ==
    /\ pc = "idle"
    /\ bot.handled < MaxMessages
    /\ \E user_id \in Users, args \in CommandArgs :
          \E message \in {[kind |-> "manual_reject", chat_id |-> ChatOf(user_id),
                            user_id |-> user_id, args |-> args]} :
             bot' = HandleManualReject(Received(bot, message), message)
    /\ UNCHANGED << validatorVars, flowVars, calls >>

NextBot ==
    \/ ReceiveDocument
    \/ Validate
    \/ ValidateEntry
    \/ ValidateFinish
    \/ HandlePdfs
    \/ Decide
    \/ Dispose
    \/ ManualAccept
    \/ ManualReject

SpecBot == InitBot /\ [][NextBot]_vars

(***************************************************************************)
(* Properties of decide (checked under SpecDecide).                        *)
(***************************************************************************)
\* the configuration enables the title check
TitleEnabled ==
    /\ "title_check" \in DOMAIN config
    /\ "enabled" \in DOMAIN config.title_check
    /\ config.title_check.enabled

\* the threshold in force: the configured one, 0.6 when not configured
ThresholdInForce(key) ==
    IF "title_check" \in DOMAIN config /\ key \in DOMAIN config.title_check
    THEN config.title_check[key]
    ELSE 60

SignatureConfidence == context.title_analysis[1].signature_confidence

ZachetConfidence == context.title_analysis[1].zacheno_confidence

Status == decision[1].status

\* C1: whenever the context handed to decide has a non-empty error list the
\* decision is Rejected, whatever the title-check configuration and the
\* title-analysis confidences are.
C1_ErrorsAlwaysRejected ==
    (pc = "done" /\ context.errors # << >>) => Status = "rejected"

\* a context with errors and a title analysis that would pass was rejected
C1_Witness ==
    /\ pc = "done"
    /\ context.errors # << >>
    /\ TitleEnabled
    /\ context.title_analysis # None
    /\ SignatureConfidence = 100
    /\ ZachetConfidence = 100
    /\ Status = "rejected"

\* C2: with no errors, the title check enabled and a title analysis present,
\* the decision is Accepted exactly when the signature confidence reaches the
\* signature threshold or the mark confidence reaches the mark threshold
\* (0.6 for a threshold that is not configured), and Rejected otherwise.
C2_TitleCheckDecides ==
    (pc = "done" /\ context.errors = << >> /\ TitleEnabled /\ context.title_analysis # None)
    => /\ Status = "accepted" <=>
              \/ SignatureConfidence >= ThresholdInForce("signature_threshold")
              \/ ZachetConfidence >= ThresholdInForce("zacheno_threshold")
       /\ Status # "accepted" => Status = "rejected"

\* both confidences are 0.59 under the default thresholds: Rejected
C2_Witness ==
    /\ pc = "done"
    /\ context.errors = << >>
    /\ TitleEnabled
    /\ DOMAIN config.title_check = {"enabled"}
    /\ context.title_analysis # None
    /\ SignatureConfidence = 59
    /\ ZachetConfidence = 59
    /\ Status = "rejected"

\* C3: with no errors, the title check enabled and a title analysis present,
\* a confidence equal to its threshold is enough for Accepted, whatever the
\* other confidence is.
C3_ThresholdInclusive ==
    (/\ pc = "done"
     /\ context.errors = << >>
     /\ TitleEnabled
     /\ context.title_analysis # None
     /\ \/ SignatureConfidence = ThresholdInForce("signature_threshold")
        \/ ZachetConfidence = ThresholdInForce("zacheno_threshold"))
    => Status = "accepted"

\* the mark confidence equals its configured threshold, the signature
\* confidence is zero: Accepted
C3_Witness ==
    /\ pc = "done"
    /\ context.errors = << >>
    /\ TitleEnabled
    /\ context.title_analysis # None
    /\ "zacheno_threshold" \in DOMAIN config.title_check
    /\ ZachetConfidence = config.title_check.zacheno_threshold
    /\ SignatureConfidence = 0
    /\ Status = "accepted"

\* C4: with no errors, when the title check is not enabled or no title
\* analysis is present, the decision is Accepted whatever the thresholds
\* and the confidences are.
C4_StructureOnlyAccepted ==
    (/\ pc = "done"
     /\ context.errors = << >>
     /\ ~TitleEnabled \/ context.title_analysis = None)
    => Status = "accepted"

\* the title check is switched off, thresholds are configured and a title
\* analysis with zero confidences is present: Accepted
C4_Witness ==
    /\ pc = "done"
    /\ context.errors = << >>
    /\ "title_check" \in DOMAIN config
    /\ DOMAIN config.title_check = {"enabled", "signature_threshold", "zacheno_threshold"}
    /\ ~config.title_check.enabled
    /\ context.title_analysis # None
    /\ SignatureConfidence = 0
    /\ ZachetConfidence = 0
    /\ Status = "accepted"

Segment(name, i) == EntryParts(name)[i]

\* the file entries of five segments that pass the denylist, in archive order
WellPlacedFiles(names) ==
    SelectSeq(names, LAMBDA n : ~EntryDenylisted(n) /\ ~EntryIsDir(n) /\ Len(EntryParts(n)) = 5)

\* the errors recorded with the given message
ErrorsWith(errors, message) == SelectSeq(errors, LAMBDA e : e.message = message)

\* the entries validate has gone through so far
Processed ==
    IF pc = "entries" THEN SubSeq(archive.names, 1, idx - 1) ELSE archive.names

\* the i-th segment of the first of the files, None when there is none
FirstSegment(files, i) ==
    IF files = << >> THEN None ELSE Some(Segment(files[1], i))

\* one error per file after the first whose i-th segment differs from the
\* first one's
DeviationErrors(files, i, code, message) ==
    IF files = << >> THEN << >>
    ELSE LET first == Segment(files[1], i)
             deviating == SelectSeq(Tail(files), LAMBDA n : Segment(n, i) # first)
         IN  [k \in 1..Len(deviating) |-> ErrorDetail(code, message, Some(deviating[k]))]

\* C6: a ValidateEntry step on a file entry whose name has fewer or more than
\* five non-empty segments appends exactly one InvalidStructure error with
\* the entry's path and leaves the canonical group, student, discipline and
\* the PDF list as they were.
C6_DepthInvariant ==
    [][(/\ pc = "entries"
        /\ idx <= Len(archive.names)
        /\ ~EntryIsDir(archive.names[idx])
        /\ Len(EntryParts(archive.names[idx])) # 5)
       => /\ Len(context'.errors) = Len(context.errors) + 1
          /\ SubSeq(context'.errors, 1, Len(context.errors)) = context.errors
          /\ context'.errors[Len(context'.errors)].code = "invalid_structure"
          /\ context'.errors[Len(context'.errors)].path = Some(archive.names[idx])
          /\ UNCHANGED << root_group, student, discipline, pdf_paths >>]_vars

\* C7: once validate has returned for a readable archive, the error list holds
\* the path-less InvalidStructure error exactly when pdf_paths is empty, and
\* an archive without any PDF ends with a non-empty error list and Rejected.
C7_ZeroPdfRule ==
    (pc \in {"validated", "decide", "done"} /\ archive.readable)
    => /\ (\E i \in 1..Len(context.errors) :
              /\ context.errors[i].code = "invalid_structure"
              /\ context.errors[i].path = None)
          <=> context.pdf_paths = << >>
       /\ (pc = "done" /\ context.pdf_paths = << >>)
          => (context.errors # << >> /\ Status = "rejected")

\* an archive of one directory, faultless except that it holds no PDF, was
\* rejected with the zero-PDF error as its only error
C7_Witness ==
    /\ pc = "done"
    /\ archive.readable
    /\ archive.names = << "G1/Ivanov IO/Radio/Labs/" >>
    /\ context.errors = << ErrorDetail("invalid_structure", "no PDF found", None) >>
    /\ Status = "rejected"

\* C8: at every point of validate the canonical group and student are those
\* of the first well-placed file gone through, each later well-placed file
\* whose group (student) segment differs has exactly one InvalidStructure
\* error of that kind with its path, and validate reports the first values
\* in context.group and context.student_short.
C8_CanonicalGroupStudent ==
    (pc \in {"entries", "validated"} /\ archive.readable)
    => \A files \in {WellPlacedFiles(Processed)} :
       /\ ErrorsWith(context.errors, "several group folders")
            = DeviationErrors(files, 1, "invalid_structure", "several group folders")
       /\ ErrorsWith(context.errors, "several student folders")
            = DeviationErrors(files, 2, "invalid_structure", "several student folders")
       /\ root_group = FirstSegment(files, 1)
       /\ student = FirstSegment(files, 2)
       /\ pc = "validated" =>
             /\ context.group = FirstSegment(files, 1)
             /\ context.student_short = FirstSegment(files, 2)

\* the second file sits under another group and another student than the
\* first: two errors for it, the first values are reported
C8_Witness ==
    /\ pc = "validated"
    /\ archive.readable
    /\ Len(WellPlacedFiles(archive.names)) = 2
    /\ Segment(archive.names[2], 1) # Segment(archive.names[1], 1)
    /\ Segment(archive.names[2], 2) # Segment(archive.names[1], 2)
    /\ context.group = Some(Segment(archive.names[1], 1))
    /\ context.student_short = Some(Segment(archive.names[1], 2))
    /\ Len(ErrorsWith(context.errors, "several group folders")) = 1
    /\ Len(ErrorsWith(context.errors, "several student folders")) = 1

\* the short code the configuration lists for a discipline, None when the
\* discipline is not listed
CatalogShortCode(name) ==
    IF \E i \in DOMAIN config.disciplines : config.disciplines[i].discipline_full = name
    THEN Some(config.disciplines[
                CHOOSE i \in DOMAIN config.disciplines :
                    config.disciplines[i].discipline_full = name].discipline_short)
    ELSE None

\* C9: at every point of validate the canonical discipline is that of the
\* first well-placed file gone through, each later well-placed file whose
\* discipline segment differs has exactly one MultipleDisciplines error with
\* its path, and validate reports the first discipline in
\* context.discipline_full and its catalog short code in
\* context.discipline_short.
C9_CanonicalDiscipline ==
    (pc \in {"entries", "validated"} /\ archive.readable)
    => \A files \in {WellPlacedFiles(Processed)} :
       /\ SelectSeq(context.errors, LAMBDA e : e.code = "multiple_disciplines")
            = DeviationErrors(files, 3, "multiple_disciplines",
                              "exactly one discipline expected")
       /\ discipline = FirstSegment(files, 3)
       /\ pc = "validated" =>
             /\ context.discipline_full = FirstSegment(files, 3)
             /\ context.discipline_short =
                   IF files = << >> THEN None
                   ELSE CatalogShortCode(Segment(files[1], 3))

\* the second file sits under another discipline than the first: one
\* MultipleDisciplines error for it, the first discipline and its short
\* code are reported
C9_Witness ==
    /\ pc = "validated"
    /\ archive.readable
    /\ Len(WellPlacedFiles(archive.names)) = 2
    /\ Segment(archive.names[1], 3) = "Optics"
    /\ Segment(archive.names[2], 3) = "Radio"
    /\ context.discipline_full = Some("Optics")
    /\ context.discipline_short = Some("OP")
    /\ \E i \in 1..Len(context.errors) :
          /\ context.errors[i].code = "multiple_disciplines"
          /\ context.errors[i].path = Some(archive.names[2])

\* the entry carries a denylisted marker: "__MACOSX" anywhere in its path, or
\* a file name that is thumbs.db in any letter case
HasDenylistMarker(name) ==
    \/ Contains(name, "__MACOSX")
    \/ /\ EntryParts(name) # << >>
       /\ ~EntryIsDir(name)
       /\ Lower(Segment(name, Len(EntryParts(name)))) = "thumbs.db"

\* C10: after validate, every entry with a denylisted marker has exactly one
\* error, an InvalidStructure error with its path, and the rest of the
\* context (group, student, discipline, short code, PDF list, all other
\* errors) is what validate yields for the archive without the marked
\* entries.
C10_DenylistedExcluded ==
    (pc = "validated" /\ archive.readable)
    => \A marked \in {SelectSeq(archive.names, HasDenylistMarker)} :
       \A paths \in {{Some(marked[k]) : k \in 1..Len(marked)}} :
       \A without \in {ValidateEntries(
                         SelectSeq(archive.names, LAMBDA n : ~HasDenylistMarker(n)))} :
           /\ SelectSeq(context.errors, LAMBDA e : e.path \in paths)
                = [k \in 1..Len(marked) |->
                      ErrorDetail("invalid_structure", "forbidden service file", Some(marked[k]))]
           /\ SelectSeq(context.errors, LAMBDA e : e.path \notin paths) = without.errors
           /\ context.group = without.group
           /\ context.student_short = without.student_short
           /\ context.discipline_full = without.discipline_full
           /\ context.discipline_short = without.discipline_short
           /\ context.pdf_paths = without.pdf_paths

\* a marked file of five segments under another group comes before a valid
\* PDF: one error, and group, student, discipline and the PDF list are those
\* of the valid entry
C10_Witness ==
    /\ pc = "validated"
    /\ archive.readable
    /\ Len(archive.names) = 2
    /\ HasDenylistMarker(archive.names[1])
    /\ Len(EntryParts(archive.names[1])) = 5
    /\ ~HasDenylistMarker(archive.names[2])
    /\ Len(context.errors) = 1
    /\ context.errors[1].path = Some(archive.names[1])
    /\ context.group = Some(Segment(archive.names[2], 1))
    /\ context.group # Some(Segment(archive.names[1], 1))
    /\ context.pdf_paths = << archive.names[2] >>

\* the entry validate is about to go through passes the denylist and is a
\* file of five segments
AtWellPlacedFile ==
    /\ pc = "entries"
    /\ idx <= Len(archive.names)
    /\ WellPlacedFiles(<< archive.names[idx] >>) # << >>

\* the errors a step adds to the context
NewErrors == SubSeq(context'.errors, Len(context.errors) + 1, Len(context'.errors))

\* the messages of the InvalidFilename errors of a list, in order
FilenameMessages(errors) ==
    LET Messages(found) == [k \in 1..Len(found) |-> found[k].message]
    IN  Messages(SelectSeq(errors, LAMBDA e : e.code = "invalid_filename"))

\* the item the configuration lists for a work-type folder
WorktypeItem(folder) ==
    config.worktypes[CHOOSE i \in DOMAIN config.worktypes : config.worktypes[i].folder = folder]

Listed(folder) == \E i \in DOMAIN config.worktypes : config.worktypes[i].folder = folder

IsAlias(folder) == Listed(folder) /\ "alias_of" \in DOMAIN WorktypeItem(folder)

IsConcrete(folder) == Listed(folder) /\ "alias_of" \notin DOMAIN WorktypeItem(folder)

\* the folder is an alias of a concrete catalog entry
AliasOfConcrete(folder) == IsAlias(folder) /\ IsConcrete(WorktypeItem(folder).alias_of)

\* the folder is an alias whose target is not a folder of the catalog
UnresolvedAlias(folder) == IsAlias(folder) /\ ~Listed(WorktypeItem(folder).alias_of)

\* the entry name with another work-type folder
WithFolder(name, folder) ==
    LET Join(parts) ==
          parts[1] \o "/" \o parts[2] \o "/" \o parts[3] \o "/" \o folder \o "/" \o parts[5]
    IN  Join(EntryParts(name))

\* the work part of the file name of an entry: the fourth "_" field of the
\* name without its extension
WorkPart(name) == Split(split_filename(Segment(name, 5))[1], "_")[4]

\* C11: when validate goes through a well-placed file under an alias of a
\* concrete work type, the InvalidFilename errors it adds are those the same
\* iteration adds for the same file under the concrete folder; a work part
\* whose letter code is not the concrete entry's code is reported.
C11_AliasTransparency ==
    [][(AtWellPlacedFile /\ AliasOfConcrete(Segment(archive.names[idx], 4)))
       => \A concrete \in {WorktypeItem(WorktypeItem(Segment(archive.names[idx], 4)).alias_of)} :
          \A under \in {EntryStep(LoopState, WithFolder(archive.names[idx], concrete.folder))} :
             /\ FilenameMessages(NewErrors)
                  = FilenameMessages(SubSeq(under.errors, Len(context.errors) + 1,
                                            Len(under.errors)))
             /\ (/\ pdf_paths' # pdf_paths
                 /\ PDF_NAME_RE(split_filename(Segment(archive.names[idx], 5))[1])
                 /\ WORKCODE_RE(WorkPart(archive.names[idx])) # None
                 /\ "code" \in DOMAIN concrete
                 /\ WORKCODE_RE(WorkPart(archive.names[idx]))[1][1] # concrete.code)
                => \E k \in 1..Len(NewErrors) :
                      /\ NewErrors[k].message = "work code does not match folder"
                      /\ NewErrors[k].path = Some(archive.names[idx])]_vars

\* a file named with the code PR under Practice, an alias of Seminars whose
\* code is PZ, was reported
C11_Witness ==
    /\ pc = "validated"
    /\ archive.readable
    /\ Len(archive.names) = 1
    /\ Len(EntryParts(archive.names[1])) = 5
    /\ Segment(archive.names[1], 4) = "Practice"
    /\ AliasOfConcrete("Practice")
    /\ WorktypeItem("Practice").alias_of = "Seminars"
    /\ \E k \in 1..Len(context.errors) :
          /\ context.errors[k].message = "work code does not match folder"
          /\ context.errors[k].code = "invalid_filename"

\* C12: after validate, every well-placed file under an alias folder whose
\* target is not a folder of the catalog has an UnknownWorktype error with
\* its path, so the error list of such an archive is not empty.
C12_UnresolvedAliasFlagged ==
    (pc = "validated" /\ archive.readable)
    => \A files \in {WellPlacedFiles(archive.names)} :
       \A k \in 1..Len(files) :
          UnresolvedAlias(Segment(files[k], 4))
          => /\ \E i \in 1..Len(context.errors) :
                   /\ context.errors[i].code = "unknown_worktype"
                   /\ context.errors[i].path = Some(files[k])
             /\ context.errors # << >>

\* the errors validate records for the k-th entry: those of one iteration
\* started from the canonical values the earlier entries leave and from an
\* empty error list
EntryErrors(names, k) ==
    LET After(files) ==
          EntryStep([root_group |-> FirstSegment(files, 1),
                     student |-> FirstSegment(files, 2),
                     discipline |-> FirstSegment(files, 3),
                     pdf_paths |-> << >>, errors |-> << >>, raised |-> FALSE],
                    names[k]).errors
    IN  After(WellPlacedFiles(SubSeq(names, 1, k - 1)))

RECURSIVE ErrorsUpTo(_, _)
\* the errors of the first k entries, entry after entry
ErrorsUpTo(names, k) ==
    IF k = 0 THEN << >> ELSE ErrorsUpTo(names, k - 1) \o EntryErrors(names, k)

\* C13: the error list validate returns is the concatenation, in archive
\* order, of the errors of each entry, nothing dropped and nothing merged,
\* followed by the zero-PDF error when there is no PDF.
C13_ErrorOrder ==
    (pc = "validated" /\ archive.readable)
    => context.errors =
          ErrorsUpTo(archive.names, Len(archive.names))
          \o (IF context.pdf_paths = << >>
              THEN << ErrorDetail("invalid_structure", "no PDF found", None) >>
              ELSE << >>)

\* the same forbidden entry twice: the same error twice, then the zero-PDF
\* error
C13_Witness ==
    /\ pc = "validated"
    /\ archive.readable
    /\ Len(archive.names) = 2
    /\ archive.names[1] = archive.names[2]
    /\ Len(context.errors) = 3
    /\ context.errors[1] = context.errors[2]
    /\ context.errors[1].path = Some(archive.names[1])
    /\ context.errors[3].path = None

FileEntries(names) == SelectSeq(names, LAMBDA n : ~EntryIsDir(n))

\* the work part follows the policy of the concrete work type: its letter
\* code, a number where one is required, none where it is forbidden
WorkPartConforms(work_part, item) ==
    \A match \in {WORKCODE_RE(work_part)} :
       /\ match # None
       /\ "code" \in DOMAIN item => match[1][1] = item.code
       /\ ("number_required" \in DOMAIN item /\ item.number_required) => match[1][2] # None
       /\ ("number_forbidden" \in DOMAIN item /\ item.number_forbidden) => match[1][2] = None

\* a file of five segments under a catalogued discipline and a catalogued
\* work type (a concrete one, or an alias of a concrete one), with a
\* well-formed student folder, named group_student_shortCode_work.pdf
ConformingFile(name) ==
    \A parts \in {EntryParts(name)} :
       /\ Len(parts) = 5
       /\ is_valid_student_short(parts[2])
       /\ CatalogShortCode(parts[3]) # None
       /\ IsConcrete(parts[4]) \/ AliasOfConcrete(parts[4])
       /\ \A dots \in {SepPositions(parts[5], ".")} :
             /\ dots # {}
             /\ \A dot \in {CHOOSE d \in dots : \A e \in dots : e <= d} :
                   /\ Lower(SubSeq(parts[5], dot + 1, Len(parts[5]))) = "pdf"
                   /\ \A fields \in {Split(SubSeq(parts[5], 1, dot - 1), "_")} :
                         /\ Len(fields) = 4
                         /\ fields[1] = parts[1]
                         /\ fields[2] = parts[2]
                         /\ << fields[3] >> = CatalogShortCode(parts[3])
                         /\ WorkPartConforms(fields[4],
                               IF IsConcrete(parts[4]) THEN WorktypeItem(parts[4])
                               ELSE WorktypeItem(WorktypeItem(parts[4]).alias_of))

\* no entry has a denylisted marker, the directories have at most four
\* segments, the files conform and share group, student and discipline
Conforming(names) ==
    /\ \A i \in 1..Len(names) :
          /\ ~HasDenylistMarker(names[i])
          /\ IF EntryIsDir(names[i]) THEN Len(EntryParts(names[i])) <= 4
             ELSE ConformingFile(names[i])
    /\ \A files \in {FileEntries(names)} :
          \A i \in 1..Len(files), k \in 1..3 : Segment(files[i], k) = Segment(files[1], k)

\* C16 as stated: a conforming archive yields no error, and group, student
\* and discipline are those of its files.
C16_ConformingPasses ==
    (pc = "validated" /\ archive.readable /\ Conforming(archive.names))
    => /\ context.errors = << >>
       /\ \A files \in {FileEntries(archive.names)} :
             files # << >> =>
                /\ context.group = Some(Segment(files[1], 1))
                /\ context.student_short = Some(Segment(files[1], 2))
                /\ context.discipline_full = Some(Segment(files[1], 3))

\* C16, amended: a conforming archive that holds at least one file yields no
\* error, and group, student and discipline are those of its files.
C16_ConformingWithFilePasses ==
    (pc = "validated" /\ archive.readable /\ Conforming(archive.names))
    => \A files \in {FileEntries(archive.names)} :
          files # << >> =>
             /\ context.errors = << >>
             /\ context.group = Some(Segment(files[1], 1))
             /\ context.student_short = Some(Segment(files[1], 2))
             /\ context.discipline_full = Some(Segment(files[1], 3))

\* a directory and a conforming PDF under it: no error
C16_Witness ==
    /\ pc = "validated"
    /\ archive.readable
    /\ Conforming(archive.names)
    /\ Len(archive.names) = 2
    /\ EntryIsDir(archive.names[1])
    /\ Len(EntryParts(archive.names[1])) = 4
    /\ ~EntryIsDir(archive.names[2])
    /\ context.errors = << >>
    /\ context.group = Some("G1")
    /\ context.student_short = Some("Ivanov IO")
    /\ context.discipline_full = Some("Radio")

\* the entry validate is about to go through reaches _validate_pdf_name
AtPdfNameCheck ==
    /\ AtWellPlacedFile
    /\ \A base_ext \in {split_filename(Segment(archive.names[idx], 5))} :
          Lower(base_ext[2]) = "pdf" /\ PDF_NAME_RE(base_ext[1])

\* C17: for a readable archive validate never raises: no iteration of the
\* loop ends in an exception, the four-way split is only reached for names
\* of exactly four non-empty "_" fields, and what validate returns is a
\* populated context whose errors are ErrorDetail records.
C17_NeverRaises ==
    archive.readable
    => /\ pc # "raised"
       /\ pc = "entries" => idx \in 1..(Len(archive.names) + 1)
       /\ AtPdfNameCheck =>
             \A fields \in {Split(split_filename(Segment(archive.names[idx], 5))[1], "_")} :
                Len(fields) = 4 /\ \A k \in 1..4 : fields[k] # ""
       /\ pc = "validated" =>
             /\ DOMAIN context = DOMAIN NewContext
             /\ context.pdf_paths = pdf_paths
             /\ \A k \in 1..Len(context.errors) :
                   DOMAIN context.errors[k] = {"code", "message", "path"}

\* a PDF whose name has a single field and a PDF whose name went through the
\* four-way split were both handled: validate returned with the grammar
\* error of the first
C17_Witness ==
    /\ pc = "validated"
    /\ archive.readable
    /\ Len(archive.names) = 2
    /\ Len(context.pdf_paths) = 2
    /\ ~PDF_NAME_RE(split_filename(Segment(archive.names[1], 5))[1])
    /\ PDF_NAME_RE(split_filename(Segment(archive.names[2], 5))[1])
    /\ Len(context.errors) = 1
    /\ context.errors[1].message = "bad PDF file name format"

\* C19: when validate goes through a directory entry without a denylisted
\* marker, it adds exactly one InvalidStructure error with the entry's path
\* if the entry has more than four segments and no error otherwise, and it
\* leaves the canonical group, student, discipline and the PDF list alone.
C19_DirectoryDepth ==
    [][(/\ pc = "entries"
        /\ idx <= Len(archive.names)
        /\ EntryIsDir(archive.names[idx])
        /\ ~HasDenylistMarker(archive.names[idx]))
       => /\ context'.errors =
                IF Len(EntryParts(archive.names[idx])) > 4
                THEN Append(context.errors,
                            ErrorDetail("invalid_structure", "extra folder level",
                                        Some(archive.names[idx])))
                ELSE context.errors
          /\ UNCHANGED << root_group, student, discipline, pdf_paths >>]_vars

\* a directory of five segments and one of four: one error for the first,
\* none for the second, nothing resolved
C19_Witness ==
    /\ pc = "validated"
    /\ archive.readable
    /\ Len(archive.names) = 2
    /\ EntryIsDir(archive.names[1]) /\ Len(EntryParts(archive.names[1])) = 5
    /\ EntryIsDir(archive.names[2]) /\ Len(EntryParts(archive.names[2])) = 4
    /\ Len(context.errors) = 2
    /\ context.errors[1] = ErrorDetail("invalid_structure", "extra folder level",
                                       Some(archive.names[1]))
    /\ context.errors[2].path = None
    /\ context.group = None
    /\ context.pdf_paths = << >>

\* the extension of a file name: what follows its last ".", "" without one
ExtensionOf(filename) ==
    LET After(dots) ==
          IF dots = {} THEN ""
          ELSE SubSeq(filename, (CHOOSE d \in dots : \A e \in dots : e <= d) + 1,
                      Len(filename))
    IN  After(SepPositions(filename, "."))

\* C20: when validate goes through a well-placed file whose extension is not
\* pdf in any letter case (or which has none), it adds exactly one
\* InvalidStructure error for the extension, no InvalidFilename error, and
\* does not add the file to pdf_paths; for an extension pdf in any letter
\* case it adds no extension error and the file joins pdf_paths.
C20_ExtensionRule ==
    [][AtWellPlacedFile
       => \A extension_errors \in {ErrorsWith(NewErrors, "only PDF files allowed")} :
             IF Lower(ExtensionOf(Segment(archive.names[idx], 5))) # "pdf"
             THEN /\ extension_errors =
                        << ErrorDetail("invalid_structure", "only PDF files allowed",
                                       Some(archive.names[idx])) >>
                  /\ FilenameMessages(NewErrors) = << >>
                  /\ pdf_paths' = pdf_paths
             ELSE /\ extension_errors = << >>
                  /\ pdf_paths' = Append(pdf_paths, archive.names[idx])]_vars

\* a file without extension and a file with the extension PDF in capitals:
\* one extension error, for the first, and only the second is a PDF path
C20_Witness ==
    /\ pc = "validated"
    /\ archive.readable
    /\ Len(archive.names) = 2
    /\ Len(WellPlacedFiles(archive.names)) = 2
    /\ ExtensionOf(Segment(archive.names[1], 5)) = ""
    /\ ExtensionOf(Segment(archive.names[2], 5)) = "PDF"
    /\ ErrorsWith(context.errors, "only PDF files allowed")
         = << ErrorDetail("invalid_structure", "only PDF files allowed",
                          Some(archive.names[1])) >>
    /\ context.pdf_paths = << archive.names[2] >>

(***************************************************************************)
(* Properties of repeated and interleaved validate calls (checked under    *)
(* SpecCalls).                                                             *)
(***************************************************************************)
\* the calls that have returned
Returned == {c \in 1..MaxCalls : calls[c].pc = "returned"}

\* C14: two validate calls on the same validator that were given the same
\* archive returned the same error list (codes, messages, paths, order),
\* whatever the validator was called with before or meanwhile.
C14_SameArchiveSameErrors ==
    \A c \in Returned, d \in Returned :
       calls[c].archive = calls[d].archive
       => calls[c].context.errors = calls[d].context.errors

\* the same archive of two files under different groups was validated twice:
\* both calls returned the one error of the second file
C14_Witness ==
    /\ Returned = {1, 2}
    /\ calls[1].archive = calls[2].archive
    /\ Len(calls[1].archive.names) = 2
    /\ calls[1].archive.names[1] # calls[1].archive.names[2]
    /\ Len(calls[1].context.errors) = 1
    /\ calls[2].context.errors = calls[1].context.errors

\* what validate returns for the archive when it is the only call
ValidateAlone(a) == IF a.readable THEN ValidateEntries(a.names) ELSE BadZipContext

\* C18: no step of a validate call changes the validator's tables or the
\* locals and the context of another call, and every call, whatever other
\* calls ran before it or between its iterations, returns the context the
\* same archive yields when validated alone.
C18_CallsIndependent ==
    [][/\ worktype_map' = worktype_map
       /\ discipline_full_map' = discipline_full_map
       /\ \A c \in 1..MaxCalls, d \in 1..MaxCalls :
             (calls'[c] # calls[c] /\ d # c) => calls'[d] = calls[d]
       /\ \A c \in 1..MaxCalls :
             (calls[c].pc # "returned" /\ calls'[c].pc = "returned")
             => calls'[c].context = ValidateAlone(calls'[c].archive)]_vars

\* the second call, made while the first was still in its loop, has
\* returned: each of the two has the group of its own file and no error
C18_Witness ==
    /\ calls[1].pc = "entries"
    /\ calls[1].idx = 2
    /\ calls[2].pc = "returned"
    /\ Len(calls[1].archive.names) = 1
    /\ Len(calls[2].archive.names) = 1
    /\ calls[1].root_group = Some("G1")
    /\ calls[2].context.group = Some("G2")
    /\ calls[1].context.errors = << >>
    /\ calls[2].context.errors = << >>

(***************************************************************************)
(* Properties of the PDF file-name rules and of the two whitelists        *)
(* (checked under SpecPdfNames, C22 under Spec).                           *)
(***************************************************************************)
\* validate is about to go through a well-placed file of extension pdf
AtPdfFile ==
    /\ AtWellPlacedFile
    /\ Lower(ExtensionOf(Segment(archive.names[idx], 5))) = "pdf"

\* the "_" fields of the file name of an entry, its extension taken off
NameFields(name) == Split(split_filename(Segment(name, 5))[1], "_")

\* the file name has exactly four "_" fields, none of them empty
FourFields(name) ==
    \A fields \in {NameFields(name)} :
       Len(fields) = 4 /\ \A k \in 1..4 : fields[k] # ""

\* the InvalidFilename errors of a list, in order
FilenameErrors(errors) == SelectSeq(errors, LAMBDA e : e.code = "invalid_filename")

\* C21: when validate goes through a well-placed PDF whose name is not made
\* of exactly four non-empty "_" fields, the only InvalidFilename error it
\* adds is the one of the name format, so no field check has added any; a
\* name of four non-empty fields gets no error of the name format.
C21_FourFieldGrammar ==
    [][AtPdfFile
       => IF FourFields(archive.names[idx])
          THEN ErrorsWith(NewErrors, "bad PDF file name format") = << >>
          ELSE FilenameErrors(NewErrors)
                 = << ErrorDetail("invalid_filename", "bad PDF file name format",
                                  Some(archive.names[idx])) >>]_vars

\* a name of four fields whose last is empty and a name of five fields: one
\* name-format error each and nothing else
C21_Witness ==
    /\ pc = "validated"
    /\ archive.readable
    /\ Len(archive.names) = 2
    /\ Len(NameFields(archive.names[1])) = 4
    /\ NameFields(archive.names[1])[4] = ""
    /\ Len(NameFields(archive.names[2])) = 5
    /\ context.errors =
          << ErrorDetail("invalid_filename", "bad PDF file name format", Some(archive.names[1])),
             ErrorDetail("invalid_filename", "bad PDF file name format", Some(archive.names[2])) >>

\* the well-placed files of extension pdf, in archive order
PdfEntries(names) ==
    SelectSeq(WellPlacedFiles(names),
              LAMBDA n : Lower(ExtensionOf(Segment(n, 5))) = "pdf")

\* C22: validate returns in pdf_paths every well-placed file of extension
\* pdf, in archive order, whatever the checks of its name found; so an
\* archive with such a file never gets the zero-PDF error.
C22_PdfCountedWhateverName ==
    (pc = "validated" /\ archive.readable)
    => \A pdfs \in {PdfEntries(archive.names)} :
          /\ context.pdf_paths = pdfs
          /\ pdfs # << >> => ErrorsWith(context.errors, "no PDF found") = << >>

\* the only PDF of the archive has a one-field name: it is listed, and the
\* name-format error is the only error
C22_Witness ==
    /\ pc = "validated"
    /\ archive.readable
    /\ Len(archive.names) = 1
    /\ context.pdf_paths = archive.names
    /\ ~FourFields(archive.names[1])
    /\ context.errors =
          << ErrorDetail("invalid_filename", "bad PDF file name format", Some(archive.names[1])) >>

\* validate is about to go through a well-placed PDF named with four fields
AtFourFieldPdf == AtPdfFile /\ FourFields(archive.names[idx])

\* the list holding the error when the condition holds, empty otherwise
ErrorIf(condition, code, message, path) ==
    IF condition THEN << ErrorDetail(code, message, Some(path)) >> ELSE << >>

\* C23: when validate goes through a well-placed PDF named with four fields,
\* it adds one InvalidFilename error for the group field exactly when the
\* field differs from the group folder of the entry's own path, and one for
\* the student field exactly when it differs from the entry's own student
\* folder; the canonical group and student play no part, so a file under a
\* second group folder gets the InvalidStructure error of the folder and,
\* its name agreeing with its own folders, neither of the two.
C23_GroupStudentFields ==
    [][AtFourFieldPdf
       => \A name \in {archive.names[idx]} :
          \A fields \in {NameFields(name)} :
             /\ ErrorsWith(NewErrors, "group differs from root folder")
                  = ErrorIf(fields[1] # Segment(name, 1), "invalid_filename",
                            "group differs from root folder", name)
             /\ ErrorsWith(NewErrors, "student differs from student folder")
                  = ErrorIf(fields[2] # Segment(name, 2), "invalid_filename",
                            "student differs from student folder", name)
             /\ ErrorsWith(NewErrors, "several group folders")
                  = ErrorIf(root_group # None /\ root_group # Some(Segment(name, 1)),
                            "invalid_structure", "several group folders", name)]_vars

\* a PDF under a second group folder, named after its own folders, comes
\* after a PDF of the first group: the error of the folder is the only error
C23_Witness ==
    /\ pc = "validated"
    /\ archive.readable
    /\ Len(archive.names) = 2
    /\ Segment(archive.names[1], 1) # Segment(archive.names[2], 1)
    /\ FourFields(archive.names[2])
    /\ NameFields(archive.names[2])[1] = Segment(archive.names[2], 1)
    /\ NameFields(archive.names[2])[1] # Segment(archive.names[1], 1)
    /\ context.group = Some(Segment(archive.names[1], 1))
    /\ context.errors =
          << ErrorDetail("invalid_structure", "several group folders", Some(archive.names[2])) >>

\* C24: when validate goes through a well-placed PDF named with four fields,
\* it adds one InvalidFilename error for the discipline field exactly when
\* the discipline folder is listed in the catalog and the field is not its
\* short code; under a folder the catalog does not list, the only error
\* about the discipline is the InvalidStructure error of the folder.
C24_DisciplineField ==
    [][AtFourFieldPdf
       => \A name \in {archive.names[idx]} :
          \A short \in {CatalogShortCode(Segment(name, 3))} :
             /\ ErrorsWith(NewErrors, "discipline code differs from catalog")
                  = ErrorIf(short # None /\ << NameFields(name)[3] >> # short,
                            "invalid_filename", "discipline code differs from catalog", name)
             /\ ErrorsWith(NewErrors, "discipline not allowed")
                  = ErrorIf(short = None,
                            "invalid_structure", "discipline not allowed", name)]_vars

\* a PDF under an unlisted discipline, then a PDF under a listed one whose
\* field is another short code: the folder error for the first, the field
\* error for the second
C24_Witness ==
    /\ pc = "validated"
    /\ archive.readable
    /\ Len(archive.names) = 2
    /\ CatalogShortCode(Segment(archive.names[1], 3)) = None
    /\ CatalogShortCode(Segment(archive.names[2], 3)) = Some("RS")
    /\ NameFields(archive.names[2])[3] = "OP"
    /\ ErrorsWith(context.errors, "discipline not allowed")
          = << ErrorDetail("invalid_structure", "discipline not allowed", Some(archive.names[1])) >>
    /\ ErrorsWith(context.errors, "discipline code differs from catalog")
          = << ErrorDetail("invalid_filename", "discipline code differs from catalog",
                           Some(archive.names[2])) >>
    /\ \A k \in 1..Len(context.errors) :
          context.errors[k].path = Some(archive.names[1])
          => context.errors[k].code # "invalid_filename"

\* the work part is two or three upper-case letters, then digits or nothing
WorkPartGrammar(work_part) ==
    \E k \in {2, 3} :
       /\ Len(work_part) >= k
       /\ AllChars(SubSeq(work_part, 1, k), UpperChars)
       /\ AllChars(SubSeq(work_part, k + 1, Len(work_part)), DigitChars)

\* the work-type folder resolves to an entry of the catalog: it is listed
\* and, when an alias, so is its target
Resolves(folder) ==
    Listed(folder) /\ (IsAlias(folder) => Listed(WorktypeItem(folder).alias_of))

\* the errors of a list that concern the work part
WorkPartMessages(errors) ==
    LET Messages(found) == [k \in 1..Len(found) |-> found[k].message]
    IN  Messages(SelectSeq(errors, LAMBDA e :
            e.message \in {"bad work part format", "work code does not match folder",
                           "number required", "number forbidden"}))

\* C25: when validate goes through a well-placed PDF named with four fields
\* under a work-type folder that resolves to a catalog entry, and the work
\* part is not two or three upper-case letters optionally followed by
\* digits, the errors it adds about the work part are exactly the one of
\* the work-part format.
C25_WorkPartGrammarStops ==
    [][(/\ AtFourFieldPdf
        /\ Resolves(Segment(archive.names[idx], 4))
        /\ ~WorkPartGrammar(NameFields(archive.names[idx])[4]))
       => /\ WorkPartMessages(NewErrors) = << "bad work part format" >>
          /\ ErrorsWith(NewErrors, "bad work part format")
               = << ErrorDetail("invalid_filename", "bad work part format",
                                Some(archive.names[idx])) >>]_vars

\* the concrete entry of the catalog a work-type folder stands for: its own
\* entry, or the target of the alias
ConcreteItem(folder) ==
    IF IsConcrete(folder) THEN WorktypeItem(folder)
    ELSE WorktypeItem(WorktypeItem(folder).alias_of)

\* validate is about to go through a well-placed PDF named with four fields
\* whose folder stands for a concrete work type and whose work part matches
\* the pattern of work parts
AtMatchedWorkPart ==
    /\ AtFourFieldPdf
    /\ IsConcrete(Segment(archive.names[idx], 4))
       \/ AliasOfConcrete(Segment(archive.names[idx], 4))
    /\ WORKCODE_RE(NameFields(archive.names[idx])[4]) # None

\* a file that conforms in everything but the letter code of its work
\* part: the concrete work type declares another code, and the work part
\* carries a number the work type does not forbid
WrongCodeOnly(name) ==
    /\ ~HasDenylistMarker(name) /\ ~EntryIsDir(name) /\ Len(EntryParts(name)) = 5
    /\ Lower(ExtensionOf(Segment(name, 5))) = "pdf"
    /\ is_valid_student_short(Segment(name, 2))
    /\ CatalogShortCode(Segment(name, 3)) # None
    /\ IsConcrete(Segment(name, 4)) \/ AliasOfConcrete(Segment(name, 4))
    /\ FourFields(name)
    /\ \A fields \in {NameFields(name)} :
       \A item \in {ConcreteItem(Segment(name, 4))} :
       \A match \in {WORKCODE_RE(fields[4])} :
          /\ fields[1] = Segment(name, 1)
          /\ fields[2] = Segment(name, 2)
          /\ << fields[3] >> = CatalogShortCode(Segment(name, 3))
          /\ match # None
          /\ "code" \in DOMAIN item
          /\ match[1][1] # item.code
          /\ match[1][2] # None
          /\ ~("number_forbidden" \in DOMAIN item /\ item.number_forbidden)

\* C26: when validate goes through a PDF whose work part matches the
\* pattern, under a folder standing for a concrete work type, it adds one
\* InvalidFilename error for the code exactly when the work type declares a
\* code and the letters of the work part are not that code; and validate
\* returns for an archive whose single entry conforms in everything but the
\* letter code that error alone, with group, student and discipline set
\* from the path.
C26_ExpectedCode ==
    [][/\ AtMatchedWorkPart
          => \A name \in {archive.names[idx]} :
             \A item \in {ConcreteItem(Segment(name, 4))} :
                ErrorsWith(NewErrors, "work code does not match folder")
                  = ErrorIf(/\ "code" \in DOMAIN item
                            /\ WORKCODE_RE(NameFields(name)[4])[1][1] # item.code,
                            "invalid_filename", "work code does not match folder", name)
       /\ (/\ pc = "entries"
           /\ pc' = "validated"
           /\ Len(archive.names) = 1
           /\ WrongCodeOnly(archive.names[1]))
          => \A name \in {archive.names[1]} :
             /\ context'.errors =
                   << ErrorDetail("invalid_filename", "work code does not match folder",
                                  Some(name)) >>
             /\ context'.group = Some(Segment(name, 1))
             /\ context'.student_short = Some(Segment(name, 2))
             /\ context'.discipline_full = Some(Segment(name, 3))
             /\ context'.discipline_short = CatalogShortCode(Segment(name, 3))]_vars

\* a PDF named PZ1 under Labs, whose code is LR, is the only entry: the code
\* error is the only error and group, student and discipline are set
C26_Witness ==
    /\ pc = "validated"
    /\ archive.readable
    /\ Len(archive.names) = 1
    /\ WrongCodeOnly(archive.names[1])
    /\ Len(context.errors) = 1
    /\ context.errors[1].message = "work code does not match folder"
    /\ context.group = Some("G1")
    /\ context.discipline_short = Some("RS")

\* the entry of the catalog whose policy applies under a work-type folder
\* that resolves: the folder's own entry, or the entry its alias names
OneHopItem(folder) ==
    IF IsAlias(folder) THEN WorktypeItem(WorktypeItem(folder).alias_of)
    ELSE WorktypeItem(folder)

\* the entry is a concrete one that requires (forbids) a number
Requires(item) ==
    /\ "alias_of" \notin DOMAIN item
    /\ "number_required" \in DOMAIN item
    /\ item.number_required

Forbids(item) ==
    /\ "alias_of" \notin DOMAIN item
    /\ "number_forbidden" \in DOMAIN item
    /\ item.number_forbidden

\* validate is about to go through a well-placed PDF named with four fields,
\* under a folder that resolves, whose work part matches the pattern
AtPolicyCheck ==
    /\ AtFourFieldPdf
    /\ Resolves(Segment(archive.names[idx], 4))
    /\ WORKCODE_RE(NameFields(archive.names[idx])[4]) # None

\* C27: when validate goes through a PDF whose work part matches the
\* pattern, under a folder that resolves, it adds one InvalidFilename error
\* for a missing number exactly when the entry requires a number and the
\* work part has none, and one for an unwanted number exactly when the
\* entry forbids a number and the work part has one, whatever the outcome
\* of the code check; an entry that neither requires nor forbids a number
\* gets neither error.
C27_NumberPolicy ==
    [][AtPolicyCheck
       => \A name \in {archive.names[idx]} :
          \A item \in {OneHopItem(Segment(name, 4))} :
          \A number \in {WORKCODE_RE(NameFields(name)[4])[1][2]} :
             /\ ErrorsWith(NewErrors, "number required")
                  = ErrorIf(Requires(item) /\ number = None,
                            "invalid_filename", "number required", name)
             /\ ErrorsWith(NewErrors, "number forbidden")
                  = ErrorIf(Forbids(item) /\ number # None,
                            "invalid_filename", "number forbidden", name)]_vars

\* two PDFs under a work type that neither requires nor forbids a number,
\* one with a number and one without: no error
C27_Witness ==
    /\ pc = "validated"
    /\ archive.readable
    /\ Len(archive.names) = 2
    /\ \A k \in 1..2 :
          /\ IsConcrete(Segment(archive.names[k], 4))
          /\ ~Requires(WorktypeItem(Segment(archive.names[k], 4)))
          /\ ~Forbids(WorktypeItem(Segment(archive.names[k], 4)))
    /\ WORKCODE_RE(NameFields(archive.names[1])[4])[1][2] # None
    /\ WORKCODE_RE(NameFields(archive.names[2])[4])[1][2] = None
    /\ context.errors = << >>
    /\ context.pdf_paths = archive.names

\* 1 when the condition holds, 0 otherwise
Count(condition) == IF condition THEN 1 ELSE 0

\* the number of checks of the work part the file name of an entry fails:
\* none under a folder that does not resolve, the pattern alone when the
\* work part does not match it, else the code and the number policy
WorkPartViolations(name) ==
    LET OfMatch(item, match) ==
          IF match = None THEN 1
          ELSE Count(/\ "alias_of" \notin DOMAIN item
                     /\ "code" \in DOMAIN item
                     /\ match[1][1] # item.code)
               + Count(Requires(item) /\ match[1][2] = None)
               + Count(Forbids(item) /\ match[1][2] # None)
    IN  IF Resolves(Segment(name, 4))
        THEN OfMatch(OneHopItem(Segment(name, 4)), WORKCODE_RE(NameFields(name)[4]))
        ELSE 0

\* the number of checks the four-field file name of an entry fails
NameViolations(name) ==
    LET OfFields(fields, short) ==
          Count(fields[1] # Segment(name, 1))
          + Count(fields[2] # Segment(name, 2))
          + Count(short # None /\ << fields[3] >> # short)
          + WorkPartViolations(name)
    IN  OfFields(NameFields(name), CatalogShortCode(Segment(name, 3)))

ListedDiscipline(name) ==
    \E i \in DOMAIN config.disciplines : config.disciplines[i].discipline_full = name

\* the checks that follow the two whitelists in the loop body have run on
\* the entry validate goes through: the extension, the four fields, and
\* for a name of four fields the checks of its fields
LaterChecksRun(name) ==
    \A is_pdf \in {Lower(ExtensionOf(Segment(name, 5))) = "pdf"} :
       /\ ErrorsWith(NewErrors, "only PDF files allowed")
            = ErrorIf(~is_pdf, "invalid_structure", "only PDF files allowed", name)
       /\ ErrorsWith(NewErrors, "bad PDF file name format")
            = ErrorIf(is_pdf /\ ~FourFields(name),
                      "invalid_filename", "bad PDF file name format", name)
       /\ pdf_paths' = IF is_pdf THEN Append(pdf_paths, name) ELSE pdf_paths
       /\ (is_pdf /\ FourFields(name))
             => /\ Len(FilenameErrors(NewErrors)) = NameViolations(name)
                /\ ErrorsWith(NewErrors, "group differs from root folder")
                     = ErrorIf(NameFields(name)[1] # Segment(name, 1), "invalid_filename",
                               "group differs from root folder", name)
                /\ ErrorsWith(NewErrors, "student differs from student folder")
                     = ErrorIf(NameFields(name)[2] # Segment(name, 2), "invalid_filename",
                               "student differs from student folder", name)

\* C29: when validate goes through a well-placed file, it adds one
\* InvalidStructure error for the discipline exactly when the discipline
\* folder is not a discipline of the catalog, be the entry the first of its
\* discipline or not; for such an entry the work-type whitelist, the
\* extension and the file-name checks still run.
C29_DisciplineWhitelist ==
    [][AtWellPlacedFile
       => \A name \in {archive.names[idx]} :
             /\ ErrorsWith(NewErrors, "discipline not allowed")
                  = ErrorIf(~ListedDiscipline(Segment(name, 3)),
                            "invalid_structure", "discipline not allowed", name)
             /\ ~ListedDiscipline(Segment(name, 3))
                  => /\ ErrorsWith(NewErrors, "unknown work type folder")
                          = ErrorIf(~Listed(Segment(name, 4)),
                                    "unknown_worktype", "unknown work type folder", name)
                     /\ LaterChecksRun(name)]_vars

\* two PDFs under the same unlisted discipline: one error of the whitelist
\* for each, the first included, and the second also gets the error of its
\* file name
C29_Witness ==
    /\ pc = "validated"
    /\ archive.readable
    /\ Len(archive.names) = 2
    /\ Segment(archive.names[1], 3) = Segment(archive.names[2], 3)
    /\ ~ListedDiscipline(Segment(archive.names[1], 3))
    /\ context.discipline_full = Some(Segment(archive.names[1], 3))
    /\ context.pdf_paths = archive.names
    /\ context.errors =
          << ErrorDetail("invalid_structure", "discipline not allowed", Some(archive.names[1])),
             ErrorDetail("invalid_structure", "discipline not allowed", Some(archive.names[2])),
             ErrorDetail("invalid_filename", "bad PDF file name format", Some(archive.names[2])) >>

\* C30: when validate goes through a well-placed file, it adds one
\* UnknownWorktype error exactly when the work-type folder is not a folder
\* of the catalog, alias or concrete; for such an entry no error about the
\* work part is added, while the extension, the four fields, the group, the
\* student and the discipline code are still checked.
C30_WorktypeWhitelist ==
    [][AtWellPlacedFile
       => \A name \in {archive.names[idx]} :
             /\ ErrorsWith(NewErrors, "unknown work type folder")
                  = ErrorIf(~Listed(Segment(name, 4)),
                            "unknown_worktype", "unknown work type folder", name)
             /\ ~Listed(Segment(name, 4))
                  => /\ WorkPartMessages(NewErrors) = << >>
                     /\ LaterChecksRun(name)
                     /\ (Lower(ExtensionOf(Segment(name, 5))) = "pdf" /\ FourFields(name))
                          => \A short \in {CatalogShortCode(Segment(name, 3))} :
                                ErrorsWith(NewErrors, "discipline code differs from catalog")
                                  = ErrorIf(short # None /\ << NameFields(name)[3] >> # short,
                                            "invalid_filename",
                                            "discipline code differs from catalog", name)]_vars

\* a PDF of four fields under an unlisted work-type folder, with a work
\* part no pattern accepts and the group of another folder: the error of
\* the whitelist and the error of the group, none about the work part
C30_Witness ==
    /\ pc = "validated"
    /\ archive.readable
    /\ Len(archive.names) = 1
    /\ ~Listed(Segment(archive.names[1], 4))
    /\ FourFields(archive.names[1])
    /\ WORKCODE_RE(NameFields(archive.names[1])[4]) = None
    /\ context.pdf_paths = archive.names
    /\ context.errors =
          << ErrorDetail("unknown_worktype", "unknown work type folder", Some(archive.names[1])),
             ErrorDetail("invalid_filename", "group differs from root folder",
                         Some(archive.names[1])) >>

(***************************************************************************)
(* Properties of the student folder (checked under SpecStudents).          *)
(***************************************************************************)
\* one token without whitespace, one space, exactly two upper-case letters
StudentFolderGrammar(segment) ==
    /\ Len(segment) >= 4
    /\ NoChars(SubSeq(segment, 1, Len(segment) - 3), SpaceChars)
    /\ Char(segment, Len(segment) - 2) = " "
    /\ AllChars(SubSeq(segment, Len(segment) - 1, Len(segment)), UpperChars)

\* C31: when validate goes through a well-placed file, it adds one
\* InvalidStructure error for the format of the student folder exactly when
\* the student segment of the entry is not one token without whitespace, a
\* space and two upper-case letters, whether or not the segment is the
\* canonical student.
C31_StudentFolderFormat ==
    [][AtWellPlacedFile
       => \A name \in {archive.names[idx]} :
             ErrorsWith(NewErrors, "bad student folder format")
               = ErrorIf(~StudentFolderGrammar(Segment(name, 2)),
                         "invalid_structure", "bad student folder format", name)]_vars

(***************************************************************************)
(* Properties of the resolution of an alias (checked under SpecPdfNames).  *)
(***************************************************************************)
\* the messages about a work part that the policy of one catalog entry
\* calls for: the pattern, then the code and the number the entry declares
PolicyMessages(item, work_part) ==
    LET OfMatch(match) ==
          IF match = None THEN << "bad work part format" >>
          ELSE (IF /\ "alias_of" \notin DOMAIN item
                   /\ "code" \in DOMAIN item
                   /\ match[1][1] # item.code
                THEN << "work code does not match folder" >> ELSE << >>)
               \o (IF Requires(item) /\ match[1][2] = None
                   THEN << "number required" >> ELSE << >>)
               \o (IF Forbids(item) /\ match[1][2] # None
                   THEN << "number forbidden" >> ELSE << >>)
    IN  OfMatch(WORKCODE_RE(work_part))

\* validate is about to go through a four-field PDF under an alias folder
\* whose target is a folder of the catalog
AtAliasedPdf ==
    /\ AtFourFieldPdf
    /\ IsAlias(Segment(archive.names[idx], 4))
    /\ Listed(WorktypeItem(Segment(archive.names[idx], 4)).alias_of)

\* C32: when validate goes through a four-field PDF under a folder that is
\* an alias of a catalog folder T, the errors about the work part are those
\* the entry of T itself calls for: the code and the number policy of T
\* when T is concrete, the pattern alone when T is an alias in turn, whose
\* own target is never looked up.
C32_SingleAliasHop ==
    [][AtAliasedPdf
       => \A name \in {archive.names[idx]} :
             WorkPartMessages(NewErrors)
               = PolicyMessages(WorktypeItem(WorktypeItem(Segment(name, 4)).alias_of),
                                NameFields(name)[4])]_vars

\* a PDF under an alias of a concrete entry, with another code than the
\* target's, then a PDF under an alias of that alias, with the code but not
\* the number the concrete entry asks for: the code error for the first,
\* no error about the work part of the second
C32_Witness ==
    /\ pc = "validated"
    /\ archive.readable
    /\ Len(archive.names) = 2
    /\ AliasOfConcrete(Segment(archive.names[1], 4))
    /\ IsAlias(Segment(archive.names[2], 4))
    /\ WorktypeItem(Segment(archive.names[2], 4)).alias_of = Segment(archive.names[1], 4)
    /\ FourFields(archive.names[2])
    /\ PolicyMessages(OneHopItem(Segment(archive.names[1], 4)),
                      NameFields(archive.names[2])[4]) = << "number required" >>
    /\ context.pdf_paths = archive.names
    /\ WorkPartMessages(context.errors) = << "work code does not match folder" >>
    /\ ErrorsWith(context.errors, "work code does not match folder")[1].path
          = Some(archive.names[1])

(***************************************************************************)
(* Properties of the canonical values validate reports (checked under      *)
(* Spec).                                                                  *)
(***************************************************************************)
\* C33: in the context validate returns for a readable archive, group,
\* student_short and discipline_full are unset exactly when the archive has
\* no file entry of five segments that passes the denylist; otherwise they
\* are the segments of the first such entry, whatever its extension, the
\* format of its student folder or its discipline, and discipline_short is
\* unset when that discipline is not in the catalog.
C33_CanonicalFromFirstFile ==
    (pc = "validated" /\ archive.readable)
    => \A files \in {WellPlacedFiles(archive.names)} :
          IF files = << >>
          THEN /\ context.group = None
               /\ context.student_short = None
               /\ context.discipline_full = None
               /\ context.discipline_short = None
          ELSE /\ context.group = Some(Segment(files[1], 1))
               /\ context.student_short = Some(Segment(files[1], 2))
               /\ context.discipline_full = Some(Segment(files[1], 3))
               /\ ~ListedDiscipline(Segment(files[1], 3)) => context.discipline_short = None

\* the first file sits under a discipline outside the catalog, the second
\* under a listed one: the first discipline is reported, without short code
C33_Witness ==
    /\ pc = "validated"
    /\ archive.readable
    /\ Len(WellPlacedFiles(archive.names)) = 2
    /\ ~ListedDiscipline(Segment(archive.names[1], 3))
    /\ ListedDiscipline(Segment(archive.names[2], 3))
    /\ context.group = Some(Segment(archive.names[1], 1))
    /\ context.student_short = Some(Segment(archive.names[1], 2))
    /\ context.discipline_full = Some(Segment(archive.names[1], 3))
    /\ context.discipline_short = None

Disposes == pc = "done" /\ pc' = "idle"

\* the places an archive of the context can be moved to
PlaceOf(root, ctx, file_name) ==
    << root, ctx.group[1], ctx.student_short[1], ctx.discipline_full[1], file_name >>

\* the files under permanent storage
StoredFiles(b) == {path \in b.files : path[1] = "storage"}

\* C34: on every step that ends the handling of a document that reached
\* validation, update_sheet was called only if decide returned Accepted,
\* and the archive is in exactly one place: gone from the temporary folder
\* and nowhere else when Rejected; in permanent storage when Accepted with
\* the ledger marked or disabled; in the manual-review folder, with a new
\* item of the queue pointing to it, when Accepted and the ledger update
\* did not succeed; with a non-empty error list nothing is stored and the
\* ledger is not marked.
C34_Disposition ==
    [][Disposes
       => \A message \in {bot.message[1]} :
          \A status \in {decision[1].status} :
          \A temp_path \in {TempPath(bot.message[1].file_name)} :
          \A called \in {bot'.effects.sheet} :
          \A enabled \in {DictGetDefault(DictGetDefault(config, "google_sheets", EmptyDict),
                                         "enabled", TRUE)} :
             /\ status \in {"accepted", "rejected"}
             /\ called # "none" => status = "accepted"
             /\ status = "rejected"
                  => /\ bot'.files = bot.files \ {temp_path}
                     /\ bot'.manual_queue = bot.manual_queue
                     /\ bot'.ledger = bot.ledger
             /\ (status = "accepted" /\ (called = "ok" \/ ~enabled))
                  => /\ bot'.files = (bot.files \ {temp_path})
                                        \cup {PlaceOf("storage", context, message.file_name)}
                     /\ bot'.manual_queue = bot.manual_queue
             /\ (status = "accepted" /\ enabled /\ called # "ok")
                  => /\ bot'.files = (bot.files \ {temp_path})
                                        \cup {PlaceOf("manual", context, message.file_name)}
                     /\ bot'.manual_queue.counter = bot.manual_queue.counter + 1
                     /\ DOMAIN bot'.manual_queue.items
                          = DOMAIN bot.manual_queue.items \cup {bot'.manual_queue.counter}
                     /\ bot'.manual_queue.items[bot'.manual_queue.counter].zip_path
                          = PlaceOf("manual", context, message.file_name)
             /\ context.errors # << >>
                  => /\ StoredFiles(bot') = StoredFiles(bot)
                     /\ bot'.ledger = bot.ledger]_vars

\* a step that handles a rejected submission of the user: a document
\* refused for its name or its size, or one decide rejected
RejectsFor(user_id) ==
    \/ /\ pc = "idle" /\ pc' = "idle"
       /\ bot'.handled = bot.handled + 1
       /\ bot'.message[1].kind = "document"
       /\ bot'.message[1].user_id = user_id
    \/ /\ Disposes
       /\ bot.message[1].user_id = user_id
       /\ decision[1].status = "rejected"

\* a step that handles a submission of the user that is not rejected
PassesFor(user_id) ==
    /\ Disposes
    /\ bot.message[1].user_id = user_id
    /\ decision[1].status # "rejected"

\* the suggestions of manual review among the messages of a handler
Suggestions(b) ==
    SelectSeq(b.effects.sent,
              LAMBDA sent : sent.text = "three failures in a row, manual review suggested")

\* C35: the failure counter of every user is 0, 1 or 2 after every step
\* and is the number of rejected submissions the user made in a row, modulo
\* 3; a step that handles a rejected submission (wrong type, oversize or
\* Rejected) moves the counter from 0 to 1, from 1 to 2 or from 2 to 0, and
\* sends the suggestion of manual review, once and to the user's chat,
\* exactly in the last case; a step that handles a submission that is not
\* rejected sets the counter to 0 and sends no suggestion; no other step
\* changes a counter.
C35_FailureCounter ==
    [][\A user_id \in Users :
       \A before \in {DictGetDefault(bot.attempts, user_id, 0)} :
       \A after \in {DictGetDefault(bot'.attempts, user_id, 0)} :
          /\ after \in {0, 1, 2}
          /\ after = DictGetDefault(bot'.streak, user_id, 0) % 3
          /\ RejectsFor(user_id)
               => /\ after = (before + 1) % 3
                  /\ bot'.streak[user_id] = DictGetDefault(bot.streak, user_id, 0) + 1
                  /\ Suggestions(bot')
                       = IF bot'.streak[user_id] % 3 = 0
                         THEN << [chat_id |-> ChatOf(user_id),
                                  text |-> "three failures in a row, manual review suggested"] >>
                         ELSE << >>
          /\ PassesFor(user_id)
               => /\ after = 0
                  /\ bot'.streak[user_id] = 0
                  /\ Suggestions(bot') = << >>
          /\ ~(RejectsFor(user_id) \/ PassesFor(user_id))
               => /\ after = before
                  /\ DictGetDefault(bot'.streak, user_id, 0) = DictGetDefault(bot.streak, user_id, 0)
                  /\ (\A other \in Users : ~RejectsFor(other)) => Suggestions(bot') = << >>]_vars

\* a user whose first submission passed has just had the third rejected
\* submission in a row: the suggestion is sent, the counter is back to 0
C35_Witness ==
    /\ pc = "idle"
    /\ bot.handled = 4
    /\ \E user_id \in Users :
          /\ user_id \in DOMAIN bot.streak
          /\ bot.streak[user_id] = 3
          /\ bot.attempts[user_id] = 0
          /\ Len(Suggestions(bot)) = 1
          /\ StoredFiles(bot) # {}

\* a step that handles a command of the manual review
Commands(kind) ==
    /\ pc = "idle" /\ pc' = "idle"
    /\ bot'.handled = bot.handled + 1
    /\ bot'.message[1].kind = kind

\* the command names the id, and nothing else
Names(message, item_id) == Len(message.args) = 1 /\ ParseInt(message.args[1]) = Some(item_id)

\* the handler left the queue, the files and the ledger as they were
NothingChanged ==
    /\ bot'.manual_queue = bot.manual_queue
    /\ bot'.files = bot.files
    /\ bot'.ledger = bot.ledger

\* C37: an item leaves the manual queue only on a step that handles the
\* manual_accept of an administrator naming it, with the ledger marked, or
\* the manual_reject of an administrator naming it; a manual_accept whose
\* ledger update failed leaves the queue and the files as they were; a
\* command of a user who is not an administrator changes nothing and gets
\* no answer; an accept or a reject of an id that was issued and is no
\* longer in the queue is answered "not found" and changes nothing.
C37_ManualResolution ==
    [][/\ \A item_id \in DOMAIN bot.manual_queue.items :
             item_id \notin DOMAIN bot'.manual_queue.items
             => /\ Commands("manual_accept") \/ Commands("manual_reject")
                /\ IsAdmin(bot'.message[1].user_id)
                /\ Names(bot'.message[1], item_id)
                /\ DOMAIN bot'.manual_queue.items = DOMAIN bot.manual_queue.items \ {item_id}
                /\ Commands("manual_accept") => bot'.effects.sheet = "ok"
       /\ (Commands("manual_accept") /\ bot'.effects.sheet = "failed")
             => NothingChanged
       /\ ((Commands("manual_accept") \/ Commands("manual_reject"))
           /\ ~IsAdmin(bot'.message[1].user_id))
             => /\ NothingChanged
                /\ bot'.effects = NoEffects
       /\ \A item_id \in 1..bot.manual_queue.counter :
             (/\ item_id \notin DOMAIN bot.manual_queue.items
              /\ Commands("manual_accept") \/ Commands("manual_reject")
              /\ IsAdmin(bot'.message[1].user_id)
              /\ Names(bot'.message[1], item_id))
             => /\ NothingChanged
                /\ bot'.effects =
                     [NoEffects EXCEPT !.sent =
                        << [chat_id |-> bot'.message[1].chat_id, text |-> "item not found"] >>]]_vars

\* an archive was queued, an administrator's accept failed at the ledger,
\* the administrator rejected the item, and the accept of the same id was
\* just answered "not found"
C37_Witness ==
    /\ pc = "idle"
    /\ bot.handled = 4
    /\ bot.manual_queue.counter = 1
    /\ bot.manual_queue.items = EmptyDict
    /\ bot.files = {}
    /\ bot.ledger = {}
    /\ bot.message[1].kind = "manual_accept"
    /\ IsAdmin(bot.message[1].user_id)
    /\ bot.message[1].args = << "1" >>
    /\ bot.effects.sent = << [chat_id |-> bot.message[1].chat_id, text |-> "item not found"] >>

====
